---- MODULE Spec2Model ----
(***************************************************************************)
(* Verification model of the swarm's dial synchronizer                    *)
(* (p2p/net/swarm/dial_sync.go) and of the swarm connection / stream      *)
(* lifecycle (p2p/net/swarm/swarm_conn.go, swarm_stream.go), of the        *)
(* upgrading listener (p2p/net/upgrader/listener.go) and of the order of   *)
(* the connection gater's checkpoints.                                     *)
(***************************************************************************)
EXTENDS Integers, FiniteSets, Sequences, TLC

(***************************************************************************)
(* Bounds                                                                  *)
(***************************************************************************)
\* number of goroutines that call dialSync.Dial (each calls it once)
MaxCallers == 2
\* number of stream slots of the connection (NewStream calls plus accepted streams)
MaxStreams == 2
\* number of raw connections that reach the listener
MaxConns == 2
\* the upgrader's AcceptQueueLength, the limit given to the threshold
AcceptQueueLength == 1
\* number of connection attempts that pass the gater's checkpoints
MaxAttempts == 2
\* number of transport dial calls
MaxTDials == 1
\* length of the address lists given to the dial rankers
MaxAddrs == 3

Callers == 1..MaxCallers
Peers == {"p1", "p2"}

\* An activeDial object is identified by the caller whose getActiveDial
\* allocated it (each caller calls Dial once, so this is unique).
NoDial == 0
\* context.Background(): the parent that is never cancelled
Background == 0

\* error values
Nil == "nil"
ctxErr == "context canceled"
dialErr == "dial failed"
errConcurrentDialSuccessful == "concurrent dial successful"
NoCause == "none"

VARIABLES
    \* ---- dialSync ----
    dials,      \* dialSync.dials : peer -> activeDial (NoDial when absent)
    ad,         \* the activeDial objects: created, peer, refCnt, cause, reqchClosed
    worker,     \* the dial worker goroutine of each activeDial
    reqs,       \* requests a worker has received from reqch and not answered
    resch,      \* per caller response channel (capacity 1)
    caller,     \* position and locals of each Dial call
    \* ---- Conn / Stream ----
    st,           \* the streams: position of the goroutine that creates it, Stream fields
    streams,      \* Conn.streams.m: nil or a set of streams
    snapshot,     \* doClose's local "streams" still to be reset
    numStreams,   \* Conn.stat.NumStreams
    once,         \* Conn.closeOnce and the position of doClose
    errCode,      \* doClose's argument
    cerr,         \* Conn.err
    swarmRemoved, \* number of c.swarm.removeConn(c) calls
    connClosed,   \* number of closes of the underlying connection, and the code
    notifyLk,     \* Conn.notifyLk: its holder
    connected,    \* notifiees whose Connected callback has returned
    disconnected, \* notifiees whose Disconnected callback has started
    disc,         \* doClose's notification goroutine(s)
    loop,         \* the accept loop goroutine of Conn.start
    closer,       \* the Close / CloseWithError calls
    \* ---- listener ----
    rc,             \* the raw connections: position of their upgrade task, scope, closes
    hi,             \* the handleIncoming goroutine: position, connection in hand
    lerr,           \* listener.err
    ctxCancelled,   \* listener.ctx has been cancelled
    gmlClosed,      \* the GatedMaListener has been closed
    incomingClosed, \* close(listener.incoming) has run
    thresholdCount, \* listener.threshold: its counter
    app,            \* the application's listener.Accept calls
    lcl,            \* the listener.Close call
    \* ---- connection gater ----
    att,            \* the connection attempts: direction, checkpoints asked, outcome
    \* ---- transport dial ----
    td,             \* the transport dial calls: position, scope, raw connection, session
    \* ---- dial ranker ----
    rk,             \* a ranker call: its address list and its results
    \* ---- memoryProtoBook ----
    protocols,      \* protoSegment.protocols : peer -> its protocol set, or absent
    pbc,            \* the callers of the protocol book: method, arguments, result
    \* ---- PeerstoreManager ----
    net,            \* network.Connectedness(p) of each peer
    netChanges,     \* changes of connectedness so far
    subOut,         \* sub.Out(): the events emitted and not yet received
    clock,          \* time.Now()
    pmCtxDone,      \* the manager's context has been cancelled
    pmDisc,         \* background's map disconnected : peer -> time, or NoTime
    pm,             \* the background goroutine: position, range loop, now
    pstoreRemoved   \* m.pstore.RemovePeer calls per peer

dialVars == <<dials, ad, worker, reqs, resch, caller>>
connVars == <<st, streams, snapshot, numStreams, once, errCode, cerr, swarmRemoved,
              connClosed, notifyLk, connected, disconnected, disc, loop, closer>>
lisVars == <<rc, hi, lerr, ctxCancelled, gmlClosed, incomingClosed, thresholdCount,
             app, lcl>>
gateVars == <<att>>
tdialVars == <<td>>
rankVars == <<rk>>
pbVars == <<protocols, pbc>>
pmVars == <<net, netChanges, subOut, clock, pmCtxDone, pmDisc, pm, pstoreRemoved>>
vars == <<dials, ad, worker, reqs, resch, caller,
          st, streams, snapshot, numStreams, once, errCode, cerr, swarmRemoved,
          connClosed, notifyLk, connected, disconnected, disc, loop, closer,
          rc, hi, lerr, ctxCancelled, gmlClosed, incomingClosed, thresholdCount,
          app, lcl, att, td, rk, protocols, pbc,
          net, netChanges, subOut, clock, pmCtxDone, pmDisc, pm, pstoreRemoved>>

(***************************************************************************)
(* dialSync                                                                *)
(*                                                                         *)
(* Each caller goroutine calls Dial once. A critical section of ds.mutex   *)
(* is one action. The dial worker is the function given to newDialSync;   *)
(* dialSync hands it the peer and reqch only, starts it with "go" and     *)
(* never waits for it, so all it learns of a teardown is the closed reqch. *)
(***************************************************************************)
NoActiveDial ==
    [created |-> FALSE, peer |-> "p1", refCnt |-> 0, parent |-> Background,
     cause |-> NoCause, reqchClosed |-> FALSE, closes |-> 0]

InitDial ==
    /\ dials = [p \in Peers |-> NoDial]
    /\ ad = [a \in Callers |-> NoActiveDial]
    /\ worker = [a \in Callers |-> "none"]
    /\ reqs = [a \in Callers |-> {}]
    /\ resch = [c \in Callers |-> "empty"]
    /\ caller = [c \in Callers |->
                    [pc |-> "idle", peer |-> "p1", ad |-> NoDial,
                     ctxDone |-> FALSE, err |-> "unset"]]

\* context.WithCancelCause(context.Background()): the parent of the shared
\* context of an activeDial created by caller c.
ParentCtxMut(c) == c
ParentCtx(c) == Background

\* ad.ctx is done when it was cancelled with a cause, or when its parent is.
AdCtxDone(a) ==
    \/ ad[a].cause # NoCause
    \/ /\ ad[a].parent # Background
       /\ caller[ad[a].parent].ctxDone

\* dialCtx := ad.ctx (plus value-only decorations): the context handed to the
\* worker is derived from the shared context, never from the caller's.
DialCtxMut(c, a) == [kind |-> "caller", of |-> c]
DialCtx(c, a) == [kind |-> "ad", of |-> a]

CtxDone(x) == IF x.kind = "ad" THEN AdCtxDone(x.of) ELSE caller[x.of].ctxDone

\* the cause the last caller cancels the shared context with
CancelCauseMut(err) == err
CancelCause(err) == IF err = Nil THEN errConcurrentDialSuccessful ELSE err

\* whether the caller that has just decremented refCnt tears the dial down
LastRefMut(n) == TRUE
LastRef(n) == n = 0

\* getActiveDial: under ds.mutex, look the peer up, create the activeDial and
\* spawn its worker when absent, and take a reference.
getActiveDial(c, p) ==
    /\ caller[c].pc = "idle"
    /\ LET fresh == dials[p] = NoDial
           a == IF fresh THEN c ELSE dials[p]
           old == IF fresh
                  THEN [NoActiveDial EXCEPT !.created = TRUE, !.peer = p,
                                            !.parent = ParentCtx(c)]
                  ELSE ad[a]
       IN /\ ad' = [ad EXCEPT ![a] = [old EXCEPT !.refCnt = old.refCnt + 1]]
          /\ dials' = [dials EXCEPT ![p] = a]
          /\ worker' = IF fresh THEN [worker EXCEPT ![a] = "running"] ELSE worker
          /\ caller' = [caller EXCEPT ![c].pc = "send", ![c].peer = p, ![c].ad = a]
    /\ UNCHANGED <<reqs, resch>>

\* activeDial.dial, first select, case ad.reqch <- dialRequest{...}:
\* the unbuffered send completes together with the worker's receive; a send
\* on a closed channel panics.
SendRequest(c) ==
    /\ caller[c].pc = "send"
    /\ LET a == caller[c].ad
       IN IF ad[a].reqchClosed
            THEN /\ caller' = [caller EXCEPT ![c].pc = "panic"]
                 /\ reqs' = reqs
            ELSE /\ worker[a] = "running"
                 /\ reqs' = [reqs EXCEPT ![a] = @ \cup {[resch |-> c, ctx |-> DialCtx(c, a)]}]
                 /\ caller' = [caller EXCEPT ![c].pc = "wait"]
    /\ UNCHANGED <<dials, ad, worker, resch>>

callerCtxDoneMut(c) == FALSE
\* <-ctx.Done() of the caller's own context is ready
callerCtxDone(c) == caller[c].ctxDone

\* activeDial.dial, either select, case <-ctx.Done(): return nil, ctx.Err()
DialCtxDone(c) ==
    /\ caller[c].pc \in {"send", "wait"}
    /\ callerCtxDone(c)
    /\ caller' = [caller EXCEPT ![c].pc = "release", ![c].err = ctxErr]
    /\ UNCHANGED <<dials, ad, worker, reqs, resch>>

\* activeDial.dial, second select, case res := <-resch
RecvResponse(c) ==
    /\ caller[c].pc = "wait"
    /\ resch[c] # "empty"
    /\ caller' = [caller EXCEPT ![c].pc = "release", ![c].err = resch[c]]
    /\ resch' = [resch EXCEPT ![c] = "empty"]
    /\ UNCHANGED <<dials, ad, worker, reqs>>

\* Dial after ad.dial returned: under ds.mutex drop the reference; the last
\* one cancels the shared context, closes reqch and unregisters the dial.
Release(c) ==
    /\ caller[c].pc = "release"
    /\ LET a == caller[c].ad
           n == ad[a].refCnt - 1
       IN IF LastRef(n)
          THEN /\ ad' = [ad EXCEPT ![a].refCnt = n,
                                   ![a].cause = IF @ = NoCause
                                                THEN CancelCause(caller[c].err)
                                                ELSE @,
                                   ![a].reqchClosed = TRUE,
                                   ![a].closes = @ + 1]
               /\ dials' = [dials EXCEPT ![caller[c].peer] = NoDial]
          ELSE /\ ad' = [ad EXCEPT ![a].refCnt = n]
               /\ dials' = dials
    /\ caller' = [caller EXCEPT ![c].pc = "done"]
    /\ UNCHANGED <<worker, reqs, resch>>

\* the caller's context is cancelled (by its owner, at any time)
CancelCaller(c) ==
    /\ caller[c].pc \in {"idle", "send", "wait"}
    /\ ~caller[c].ctxDone
    /\ caller' = [caller EXCEPT ![c].ctxDone = TRUE]
    /\ UNCHANGED <<dials, ad, worker, reqs, resch>>

\* The dial worker answers one received request on its response channel:
\* with a connection, or with an error (always an error once the request's
\* context is done).
WorkerReply(a, r, res) ==
    /\ worker[a] = "running"
    /\ r \in reqs[a]
    /\ res \in {Nil, dialErr}
    /\ CtxDone(r.ctx) => res = dialErr
    /\ resch[r.resch] = "empty"
    /\ resch' = [resch EXCEPT ![r.resch] = res]
    /\ reqs' = [reqs EXCEPT ![a] = @ \ {r}]
    /\ UNCHANGED <<dials, ad, worker, caller>>

\* The dial worker's receive on reqch reports the channel closed: it returns.
WorkerExit(a) ==
    /\ worker[a] = "running"
    /\ ad[a].reqchClosed
    /\ worker' = [worker EXCEPT ![a] = "exited"]
    /\ reqs' = [reqs EXCEPT ![a] = {}]
    /\ UNCHANGED <<dials, ad, resch, caller>>

NextDial ==
    \/ \E c \in Callers, p \in Peers : getActiveDial(c, p) /\ UNCHANGED <<connVars, lisVars, gateVars, tdialVars, rankVars, pbVars, pmVars>>
    \/ \E c \in Callers : SendRequest(c) /\ UNCHANGED <<connVars, lisVars, gateVars, tdialVars, rankVars, pbVars, pmVars>>
    \/ \E c \in Callers : DialCtxDone(c) /\ UNCHANGED <<connVars, lisVars, gateVars, tdialVars, rankVars, pbVars, pmVars>>
    \/ \E c \in Callers : RecvResponse(c) /\ UNCHANGED <<connVars, lisVars, gateVars, tdialVars, rankVars, pbVars, pmVars>>
    \/ \E c \in Callers : Release(c) /\ UNCHANGED <<connVars, lisVars, gateVars, tdialVars, rankVars, pbVars, pmVars>>
    \/ \E c \in Callers : CancelCaller(c) /\ UNCHANGED <<connVars, lisVars, gateVars, tdialVars, rankVars, pbVars, pmVars>>
    \/ \E a \in Callers : \E r \in reqs[a], res \in {Nil, dialErr} : WorkerReply(a, r, res) /\ UNCHANGED <<connVars, lisVars, gateVars, tdialVars, rankVars, pbVars, pmVars>>
    \/ \E a \in Callers : WorkerExit(a) /\ UNCHANGED <<connVars, lisVars, gateVars, tdialVars, rankVars, pbVars, pmVars>>

(***************************************************************************)
(* dialSync: properties                                                    *)
(***************************************************************************)
\* the Dial calls that hold a reference on activeDial a
Holders(a) == {c \in Callers : caller[c].ad = a /\ caller[c].pc \in {"send", "wait", "release"}}

\* the Dial calls that returned a connection obtained on activeDial a
Succeeded(a) == {c \in Callers : caller[c].ad = a /\ caller[c].pc = "done" /\ caller[c].err = Nil}

RunningWorkers(p) == {a \in Callers : worker[a] = "running" /\ ad[a].peer = p}

\* C2: for every peer at most one dial worker spawned by dialSync is
\* executing at any time, also when a Dial arrives right after the previous
\* activeDial of that peer was torn down.
C2_OneWorkerPerPeer ==
    \A p \in Peers : Cardinality(RunningWorkers(p)) <= 1

\* C3: cancelling one caller of a shared dial makes only that caller return
\* (with its context error): while any caller still holds the activeDial its
\* shared context and the request contexts handed to the worker are not
\* done, the request of a waiting uncancelled caller stays with a running
\* worker (or its answer is in its response channel), and a caller whose
\* context was not cancelled returns the worker's result.
C3_CancelIsLocal ==
    /\ \A a \in Callers : ad[a].refCnt > 0 =>
          /\ ~AdCtxDone(a)
          /\ \A r \in reqs[a] : ~CtxDone(r.ctx)
    /\ \A c \in Callers :
          /\ caller[c].err = ctxErr => caller[c].ctxDone
          /\ (caller[c].pc \in {"release", "done"} /\ ~caller[c].ctxDone)
                => caller[c].err \in {Nil, dialErr}
          /\ (caller[c].pc = "wait" /\ ~caller[c].ctxDone) =>
                /\ worker[caller[c].ad] = "running"
                /\ \/ resch[c] # "empty"
                   \/ \E r \in reqs[caller[c].ad] : r.resch = c

\* C3 witness: the caller that created the activeDial was cancelled and has
\* returned its context error, and the other caller of the same activeDial,
\* not cancelled, has received a connection from the worker.
C3_Witness ==
    \E c, d \in Callers :
        /\ c # d
        /\ caller[c].ad = c /\ caller[d].ad = c
        /\ caller[c].pc = "done" /\ caller[c].err = ctxErr
        /\ caller[d].pc = "release" /\ caller[d].err = Nil /\ ~caller[d].ctxDone
        /\ ad[c].refCnt = 1

\* C4: registry invariant of dialSync (every state of the model has the
\* mutex free: each critical section is one action). An activeDial is
\* registered iff its refCnt > 0; refCnt counts the Dial calls holding it;
\* one worker was spawned per activeDial (a call that reuses a registered
\* dial spawns none); at refCnt zero the context is cancelled, reqch closed
\* and the entry removed; with no Dial call in progress the registry is empty.
C4_RegistryInvariant ==
    /\ \A p \in Peers : dials[p] # NoDial =>
          /\ ad[dials[p]].created
          /\ ad[dials[p]].peer = p
    /\ \A a \in Callers :
          /\ ad[a].refCnt = Cardinality(Holders(a))
          /\ ad[a].created <=> worker[a] # "none"
          /\ (ad[a].created /\ ad[a].refCnt > 0) =>
                /\ dials[ad[a].peer] = a
                /\ ad[a].cause = NoCause
                /\ ~ad[a].reqchClosed
          /\ (ad[a].created /\ ad[a].refCnt = 0) =>
                /\ dials[ad[a].peer] # a
                /\ ad[a].cause # NoCause
                /\ ad[a].reqchClosed
          /\ ~ad[a].created => (ad[a].refCnt = 0 /\ \A p \in Peers : dials[p] # a)
          /\ caller[a].ad \notin {NoDial, a} => ~ad[a].created
    /\ (\A c \in Callers : caller[c].pc \in {"idle", "done"}) =>
          \A p \in Peers : dials[p] = NoDial

\* C4 witness: two Dial calls shared one activeDial, both have returned and
\* the registry is empty again.
C4_Witness ==
    \E c, d \in Callers :
        /\ c # d
        /\ caller[c].ad = c /\ caller[d].ad = c
        /\ caller[c].pc = "done" /\ caller[d].pc = "done"
        /\ \A p \in Peers : dials[p] = NoDial

\* the Dial call that leaves (drops its reference) in this step
Leaves(c, a) == caller[c].pc = "release" /\ caller'[c].pc = "done" /\ caller[c].ad = a

\* C5 (as stated): when refCnt reaches zero the shared context is cancelled
\* with the sentinel if a dial on that activeDial succeeded for any caller,
\* and otherwise with the error of the last result.
C5_Original ==
    [][\A a \in Callers : (ad[a].refCnt > 0 /\ ad'[a].refCnt = 0) =>
          \E c \in Callers :
              /\ Leaves(c, a)
              /\ ad'[a].cause = IF Succeeded(a)' # {}
                                THEN errConcurrentDialSuccessful
                                ELSE caller[c].err]_vars

\* C5 (amended): when refCnt reaches zero the shared context is cancelled
\* with the sentinel if the result of the last caller to leave has a nil
\* error, and otherwise with that caller's error (its own context error
\* included, even if another caller's dial had succeeded before).
C5_CauseOfLastCaller ==
    [][\A a \in Callers : (ad[a].refCnt > 0 /\ ad'[a].refCnt = 0) =>
          \E c \in Callers :
              /\ Leaves(c, a)
              /\ ad'[a].cause = IF caller[c].err = Nil
                                THEN errConcurrentDialSuccessful
                                ELSE caller[c].err]_vars

\* C5 witness: an activeDial on which one caller obtained a connection was
\* torn down by a cancelled caller, with that caller's context error as cause.
C5_Witness ==
    \E a \in Callers :
        /\ ad[a].created /\ ad[a].refCnt = 0
        /\ Succeeded(a) # {}
        /\ ad[a].cause = ctxErr

(***************************************************************************)
(* Conn and Stream (swarm_conn.go, swarm_stream.go)                        *)
(*                                                                         *)
(* One connection with its streams. A critical section of c.streams' lock  *)
(* or of a stream's closeMx is one action. Not represented: the swarm's    *)
(* WaitGroup (c.swarm.refs), the connectedness event emitter and the       *)
(* bandwidth counters, which none of the modelled code reads.              *)
(***************************************************************************)
Streams == 1..MaxStreams
\* the goroutines that call Conn.Close / Conn.CloseWithError; LoopCloser is
\* the accept loop's deferred c.Close()
LoopCloser == "loop"
Closers == {LoopCloser, "app"}
Notifiees == {"n1", "n2"}

ErrConnClosed == "connection closed"
ErrLimitedConn == "limited connection"
rmErr == "resource limit exceeded"
muxErr == "open stream failed"
closeErr == "close failed"

NoStream ==
    [pc |-> "free", dir |-> "none", ts |-> "none", scoped |-> FALSE,
     added |-> FALSE, isClosed |-> FALSE, acceptStreamGoroutineCompleted |-> FALSE,
     removed |-> 0, released |-> 0, by |-> "none", handled |-> FALSE,
     err |-> "unset"]

InitConn ==
    /\ st = [s \in Streams |-> NoStream]
    /\ streams = [nil |-> FALSE, m |-> {}]
    /\ snapshot = {}
    /\ numStreams = 0
    /\ once = "new"
    /\ errCode = 0
    /\ cerr = "unset"
    /\ swarmRemoved = 0
    /\ connClosed = [n |-> 0, code |-> 0]
    /\ notifyLk = "connected"
    /\ connected = {}
    /\ disconnected = {}
    /\ disc = [spawned |-> 0, pc |-> "none"]
    /\ loop = "notstarted"
    /\ closer = [k \in Closers |-> [pc |-> "idle", ret |-> "unset", cb |-> FALSE]]

\* the lowest unused stream slot
NextFree(s) == st[s].pc = "free" /\ \A t \in Streams : t < s => st[t].pc # "free"

\* scope.Done() on a path where no stream was registered
ScopeDoneMut(n) == n
ScopeDone(n) == n + 1

\* Conn.NewStream up to the call of addStream: the limited-connection check,
\* ResourceManager.OpenStream and the muxer's OpenStream (which fails or
\* times out, and then the scope is released and the error returned).
NewStream(s, outcome) ==
    /\ NextFree(s)
    /\ outcome \in {"limited", "refused", "muxFailed", "ok"}
    /\ st' = [st EXCEPT ![s] =
         CASE outcome = "limited" ->
                [@ EXCEPT !.pc = "failed", !.dir = "out", !.err = ErrLimitedConn]
           [] outcome = "refused" ->
                [@ EXCEPT !.pc = "failed", !.dir = "out", !.err = rmErr]
           [] outcome = "muxFailed" ->
                [@ EXCEPT !.pc = "failed", !.dir = "out", !.err = muxErr,
                          !.scoped = TRUE, !.released = ScopeDone(@)]
           [] outcome = "ok" ->
                [@ EXCEPT !.pc = "out_opened", !.dir = "out", !.ts = "open",
                          !.scoped = TRUE]]
    /\ UNCHANGED <<streams, snapshot, numStreams, once, errCode, cerr, swarmRemoved,
                   connClosed, notifyLk, connected, disconnected, disc, loop, closer>>

\* addStream's test "Are we still online?": c.streams.m != nil
OnlineMut == TRUE
Online == ~streams.nil

\* Conn.addStream, called by NewStream (outbound) or by the goroutine the
\* accept loop spawned (inbound), followed by what its caller does with the
\* result: on ErrConnClosed the caller releases the scope; an inbound stream
\* that was registered is handed to the stream handler.
addStream(s) ==
    /\ st[s].pc \in {"out_opened", "in_spawned"}
    /\ IF Online
       THEN /\ st' = [st EXCEPT ![s] =
                  [@ EXCEPT !.added = TRUE,
                            !.acceptStreamGoroutineCompleted = (st[s].dir # "in"),
                            !.handled = (st[s].dir = "in"),
                            !.err = Nil,
                            !.pc = IF st[s].dir = "in" THEN "in_handler" ELSE "returned"]]
            /\ streams' = [streams EXCEPT !.m = @ \cup {s}]
            /\ numStreams' = numStreams + 1
       ELSE /\ st' = [st EXCEPT ![s] =
                  [@ EXCEPT !.ts = "reset", !.err = ErrConnClosed,
                            !.released = ScopeDone(@), !.pc = "failed"]]
            /\ UNCHANGED <<streams, numStreams>>
    /\ UNCHANGED <<snapshot, once, errCode, cerr, swarmRemoved, connClosed, notifyLk,
                   connected, disconnected, disc, loop, closer>>

\* closeAndRemoveStream: "if s.acceptStreamGoroutineCompleted"
CleanupOnCloseMut(r) == TRUE
CleanupOnClose(r) == r.acceptStreamGoroutineCompleted

\* completeAcceptStreamGoroutine: "if s.isClosed"
CleanupOnCompleteMut(r) == TRUE
CleanupOnComplete(r) == r.isClosed

\* Conn.removeStream(s) as the effect on the stream's record
Removed(r, who) ==
    [r EXCEPT !.removed = @ + 1, !.released = @ + 1, !.by = who]

\* the muxed stream after s.stream.Close(), Reset() or ResetWithError(code):
\* no longer open (how it was shut is not recorded)
MuxAfter(ts, op) == IF ts = "open" /\ op \in {"Close", "Reset", "ResetWithError"} THEN "shut" ELSE ts

\* s.stream.<op>() followed by closeAndRemoveStream (all of it under closeMx)
closeAndRemoveStream(s, op) ==
    LET r == [st[s] EXCEPT !.ts = MuxAfter(@, op)]
    IN IF r.isClosed
       THEN /\ st' = [st EXCEPT ![s] = r]
            /\ UNCHANGED <<streams, numStreams>>
       ELSE IF CleanupOnClose(r)
            THEN /\ st' = [st EXCEPT ![s] = Removed([r EXCEPT !.isClosed = TRUE], "close")]
                 /\ streams' = [streams EXCEPT !.m = @ \ {s}]
                 /\ numStreams' = numStreams - 1
            ELSE /\ st' = [st EXCEPT ![s] = [r EXCEPT !.isClosed = TRUE]]
                 /\ UNCHANGED <<streams, numStreams>>

\* whoever holds the stream (the NewStream caller, the stream handler) calls
\* Stream.Close, Stream.Reset or Stream.ResetWithError, any number of times
HasStream(s) == st[s].pc \in {"returned", "in_handler", "in_done"}

\* Stream.Close, Stream.Reset and Stream.ResetWithError
StreamClose(s, op) ==
    /\ HasStream(s)
    /\ op \in {"Close", "Reset", "ResetWithError"}
    /\ closeAndRemoveStream(s, op)
    /\ UNCHANGED <<snapshot, once, errCode, cerr, swarmRemoved, connClosed, notifyLk,
                   connected, disconnected, disc, loop, closer>>

\* the stream handler has returned: s.completeAcceptStreamGoroutine()
completeAcceptStreamGoroutine(s) ==
    /\ st[s].pc = "in_handler"
    /\ LET r == [st[s] EXCEPT !.pc = "in_done"]
       IN IF r.acceptStreamGoroutineCompleted
          THEN /\ st' = [st EXCEPT ![s] = r]
               /\ UNCHANGED <<streams, numStreams>>
          ELSE IF CleanupOnComplete(r)
               THEN /\ st' = [st EXCEPT ![s] =
                         Removed([r EXCEPT !.acceptStreamGoroutineCompleted = TRUE], "complete")]
                    /\ streams' = [streams EXCEPT !.m = @ \ {s}]
                    /\ numStreams' = numStreams - 1
               ELSE /\ st' = [st EXCEPT ![s] =
                         [r EXCEPT !.acceptStreamGoroutineCompleted = TRUE]]
                    /\ UNCHANGED <<streams, numStreams>>
    /\ UNCHANGED <<snapshot, once, errCode, cerr, swarmRemoved, connClosed, notifyLk,
                   connected, disconnected, disc, loop, closer>>

\* Conn.start's loop: c.conn.AcceptStream() returned a stream; then
\* ResourceManager.OpenStream either refuses (the stream is reset with
\* StreamResourceLimitExceeded and the loop continues) or gives the scope
\* with which the goroutine calling addStream is spawned.
OpenStreamRefusedMut(r) ==
    [r EXCEPT !.pc = "in_spawned", !.dir = "in", !.ts = "resetLimit", !.err = rmErr]
\* OpenStream failed: ts.ResetWithError(StreamResourceLimitExceeded); continue
OpenStreamRefused(r) ==
    [r EXCEPT !.pc = "failed", !.dir = "in", !.ts = "resetLimit", !.err = rmErr]

AcceptStream(s, admitted) ==
    /\ loop = "accepting"
    /\ connClosed.n = 0
    /\ NextFree(s)
    /\ st' = [st EXCEPT ![s] =
         IF admitted
         THEN [@ EXCEPT !.pc = "in_spawned", !.dir = "in", !.ts = "open", !.scoped = TRUE]
         ELSE OpenStreamRefused(@)]
    /\ UNCHANGED <<streams, snapshot, numStreams, once, errCode, cerr, swarmRemoved,
                   connClosed, notifyLk, connected, disconnected, disc, loop, closer>>

\* Conn.start's loop: c.conn.AcceptStream() returned an error (the connection
\* was closed, locally or by the remote): the loop returns; its deferred
\* c.Close() is the call of closer LoopCloser.
AcceptStreamError ==
    /\ loop = "accepting"
    /\ loop' = "ended"
    /\ UNCHANGED <<st, streams, snapshot, numStreams, once, errCode, cerr, swarmRemoved,
                   connClosed, notifyLk, connected, disconnected, disc, closer>>

\* The swarm notifies a notifiee of the new connection. It took c.notifyLk
\* before the connection became reachable and holds it until every Connected
\* callback has returned.
Connected(n) ==
    /\ loop = "notstarted"
    /\ n \notin connected
    /\ connected' = connected \cup {n}
    /\ UNCHANGED <<st, streams, snapshot, numStreams, once, errCode, cerr, swarmRemoved,
                   connClosed, notifyLk, disconnected, disc, loop, closer>>

\* a Connected callback has called Close and the call has not returned
InCallbackClose(k) == closer[k].cb /\ closer[k].pc \in {"doClose", "blocked"}

\* All Connected callbacks returned: c.notifyLk.Unlock(); c.start()
ConnectedDone ==
    /\ loop = "notstarted"
    /\ connected = Notifiees
    /\ \A k \in Closers : ~InCallbackClose(k)
    /\ notifyLk' = "free"
    /\ loop' = "accepting"
    /\ UNCHANGED <<st, streams, snapshot, numStreams, once, errCode, cerr, swarmRemoved,
                   connClosed, connected, disconnected, disc, closer>>

\* sync.Once: whether this call of Do runs the function
OnceFirstMut(o) == o \in {"new", "done"}
OnceFirst(o) == o = "new"

\* Conn.Close (code = 0) or Conn.CloseWithError(code) is called (by the
\* application any number of times, by the accept loop once when it ends):
\* the first call enters doClose(code), which starts with
\* c.swarm.removeConn(c); every other call blocks in closeOnce.Do until
\* doClose has returned. cb: the call is made from inside a Connected
\* callback, which returns only after the call has.
Close(k, code, cb) ==
    /\ IF k = LoopCloser
       THEN closer[k].pc = "idle" /\ loop = "ended" /\ code = 0
       ELSE closer[k].pc \in {"idle", "returned"}
    /\ cb => (k # LoopCloser /\ loop = "notstarted" /\ connected # {})
    /\ IF OnceFirst(once)
       THEN /\ once' = "nilStreams"
            /\ errCode' = code
            /\ swarmRemoved' = swarmRemoved + 1
            /\ closer' = [closer EXCEPT ![k] = [pc |-> "doClose", ret |-> "unset", cb |-> cb]]
       ELSE /\ UNCHANGED <<once, errCode, swarmRemoved>>
            /\ closer' = [closer EXCEPT ![k] = [pc |-> "blocked", ret |-> "unset", cb |-> cb]]
    /\ UNCHANGED <<st, streams, snapshot, numStreams, cerr,
                   connClosed, notifyLk, connected, disconnected, disc, loop>>

\* doClose: "Prevent new streams from opening": under c.streams' lock take
\* the map and leave nil
NilStreamsMut == streams
NilStreams == [nil |-> TRUE, m |-> {}]

doCloseNilStreams ==
    /\ once = "nilStreams"
    /\ snapshot' = streams.m
    /\ streams' = NilStreams
    /\ once' = "closeConn"
    /\ UNCHANGED <<st, numStreams, errCode, cerr, swarmRemoved, connClosed,
                   notifyLk, connected, disconnected, disc, loop, closer>>

\* doClose: c.err = c.conn.CloseWithError(errCode) or c.conn.Close()
doCloseConn(e) ==
    /\ once = "closeConn"
    /\ e \in {Nil, closeErr}
    /\ cerr' = e
    /\ connClosed' = [n |-> connClosed.n + 1, code |-> errCode]
    /\ once' = "resetStreams"
    /\ UNCHANGED <<st, streams, snapshot, numStreams, errCode, swarmRemoved,
                   notifyLk, connected, disconnected, disc, loop, closer>>

\* doClose: for s := range streams { s.Reset() }
doCloseReset(s) ==
    /\ once = "resetStreams"
    /\ s \in snapshot
    /\ snapshot' = snapshot \ {s}
    /\ closeAndRemoveStream(s, "Reset")
    /\ UNCHANGED <<once, errCode, cerr, swarmRemoved, connClosed, notifyLk, connected,
                   disconnected, disc, loop, closer>>

\* the notification goroutine: c.notifyLk.Lock()
NotifyLockMut(l) == TRUE
NotifyLock(l) == l = "free"

NotifiesInGoroutineMut == FALSE
\* "do this in a goroutine to avoid deadlocking": doClose does not take
\* c.notifyLk itself
NotifiesInGoroutine == TRUE

\* doClose: the notification goroutine is spawned and doClose returns;
\* closeOnce is done and the call returns c.err
doCloseReturn ==
    /\ once = "resetStreams"
    /\ snapshot = {}
    /\ NotifiesInGoroutine \/ NotifyLock(notifyLk)
    /\ disc' = [spawned |-> disc.spawned + 1,
                pc |-> IF disc.pc = "none" THEN "spawned" ELSE disc.pc]
    /\ once' = "done"
    /\ closer' = [k \in Closers |->
                    IF closer[k].pc = "doClose"
                    THEN [closer[k] EXCEPT !.pc = "returned", !.ret = cerr]
                    ELSE closer[k]]
    /\ UNCHANGED <<st, streams, snapshot, numStreams, errCode, cerr, swarmRemoved,
                   connClosed, notifyLk, connected, disconnected, loop>>

\* a call that was blocked in closeOnce.Do returns c.err
CloseReturn(k) ==
    /\ closer[k].pc = "blocked"
    /\ once = "done"
    /\ closer' = [closer EXCEPT ![k].pc = "returned", ![k].ret = cerr]
    /\ UNCHANGED <<st, streams, snapshot, numStreams, once, errCode, cerr, swarmRemoved,
                   connClosed, notifyLk, connected, disconnected, disc, loop>>

DisconnectLock ==
    /\ disc.pc = "spawned"
    /\ NotifyLock(notifyLk)
    /\ notifyLk' = "disconnect"
    /\ disc' = [disc EXCEPT !.pc = "notifying"]
    /\ UNCHANGED <<st, streams, snapshot, numStreams, once, errCode, cerr, swarmRemoved,
                   connClosed, connected, disconnected, loop, closer>>

\* the notification goroutine: f.Disconnected(c.swarm, c) for a notifiee
Disconnected(n) ==
    /\ disc.pc = "notifying"
    /\ n \notin disconnected
    /\ disconnected' = disconnected \cup {n}
    /\ UNCHANGED <<st, streams, snapshot, numStreams, once, errCode, cerr, swarmRemoved,
                   connClosed, notifyLk, connected, disc, loop, closer>>

\* the notification goroutine: every notifiee was called; the deferred
\* c.notifyLk.Unlock()
DisconnectDone ==
    /\ disc.pc = "notifying"
    /\ disconnected = Notifiees
    /\ notifyLk' = "free"
    /\ disc' = [disc EXCEPT !.pc = "done"]
    /\ UNCHANGED <<st, streams, snapshot, numStreams, once, errCode, cerr, swarmRemoved,
                   connClosed, connected, disconnected, loop, closer>>

(***************************************************************************)
(* Conn and Stream: properties                                             *)
(***************************************************************************)
\* C1: a registered stream's scope is released (removeStream) at most once,
\* it is released exactly when the stream is closed and its accept
\* processing has completed (true from creation for outbound streams), and
\* the release is made by the transition that sets the second of the two
\* flags.
C1_Inv ==
    \A s \in Streams :
        /\ st[s].removed <= 1
        /\ st[s].added => st[s].released = st[s].removed
        /\ ~st[s].added => st[s].removed = 0
        /\ st[s].removed = 1 <=>
              (st[s].added /\ st[s].isClosed /\ st[s].acceptStreamGoroutineCompleted)
        /\ (st[s].added /\ st[s].dir = "out") => st[s].acceptStreamGoroutineCompleted

C1_Act ==
    \A s \in Streams : st'[s].removed # st[s].removed =>
        /\ st'[s].isClosed /\ st'[s].acceptStreamGoroutineCompleted
        /\ (st'[s].isClosed # st[s].isClosed)
              # (st'[s].acceptStreamGoroutineCompleted # st[s].acceptStreamGoroutineCompleted)
        /\ st'[s].by = IF st'[s].isClosed # st[s].isClosed THEN "close" ELSE "complete"

C1_ScopeReleasedOnce == []C1_Inv /\ [][C1_Act]_vars

\* C1 witness: an inbound stream was closed while its handler was running
\* and released afterwards by completeAcceptStreamGoroutine.
C1_Witness ==
    \E s \in Streams : st[s].by = "complete" /\ st[s].released = 1 /\ st[s].removed = 1

\* C6: no Disconnected notification starts before every Connected
\* notification of the connection has returned and the notifier has
\* released the notification lock, however Close is called.
C6_ConnectedBeforeDisconnected ==
    /\ disconnected # {} => (connected = Notifiees /\ loop # "notstarted")
    /\ disc.pc = "notifying" => (notifyLk = "disconnect" /\ loop # "notstarted")
    /\ loop = "notstarted" => notifyLk = "connected"

\* C6 witness: Close has run to the end while Connected notifications are
\* still being delivered; the notification goroutine waits for the lock.
C6_Witness ==
    /\ disc.pc = "spawned" /\ once = "done"
    /\ loop = "notstarted" /\ connected # Notifiees

\* C7: doClose runs once: one removal from the swarm, one close of the
\* underlying connection (with the code of the call that entered doClose),
\* one notification goroutine; a call returns only after doClose has
\* finished, and returns the stored error.
C7_CloseOnce ==
    /\ swarmRemoved <= 1
    /\ connClosed.n <= 1
    /\ disc.spawned <= 1
    /\ connClosed.n = 1 => connClosed.code = errCode
    /\ once = "new" => (swarmRemoved = 0 /\ connClosed.n = 0 /\ disc.spawned = 0)
    /\ Cardinality({k \in Closers : closer[k].pc = "doClose"}) <= 1
    /\ \A k \in Closers : closer[k].pc = "returned" =>
          /\ once = "done"
          /\ swarmRemoved = 1 /\ connClosed.n = 1 /\ disc.spawned = 1
          /\ closer[k].ret = cerr
          /\ cerr \in {Nil, closeErr}

\* C7 witness: CloseWithError entered doClose, the accept loop's Close was
\* the other call, and both have returned the error of the underlying close.
C7_Witness ==
    /\ \A k \in Closers : closer[k].pc = "returned" /\ closer[k].ret = closeErr
    /\ connClosed.code = 1

\* C8: once the stream set is nil it stays nil and empty, no stream is
\* registered any more, and an addStream that finds it nil resets the muxed
\* stream and fails with ErrConnClosed, the scope being released.
C8_Inv ==
    /\ streams.nil => streams.m = {}
    /\ \A s \in Streams : st[s].err = ErrConnClosed =>
          /\ ~st[s].added /\ ~st[s].handled
          /\ st[s].ts = "reset"
          /\ st[s].pc = "failed"
          /\ st[s].released = 1

C8_Act ==
    streams.nil =>
        /\ streams'.nil /\ streams'.m = {}
        /\ \A s \in Streams :
              /\ st'[s].added = st[s].added
              /\ (st[s].pc \in {"out_opened", "in_spawned"} /\ st'[s].pc # st[s].pc)
                    => st'[s].err = ErrConnClosed

C8_NoStreamAfterClose == []C8_Inv /\ [][C8_Act]_vars

\* C8 witness: a NewStream call reached addStream after the close began.
C8_Witness ==
    \E s \in Streams : st[s].dir = "out" /\ st[s].err = ErrConnClosed /\ streams.nil

\* C9: when a Close call has returned, every stream that was registered on
\* the connection is closed.
C9_AllStreamsClosed ==
    (\E k \in Closers : closer[k].pc = "returned") =>
        \A s \in Streams : st[s].added => st[s].isClosed

\* C9 witness: Close has returned while the handler of a registered inbound
\* stream is still running; the stream is closed but not yet released.
C9_Witness ==
    /\ closer["app"].pc = "returned"
    /\ \E s \in Streams :
          /\ st[s].added /\ st[s].pc = "in_handler"
          /\ st[s].isClosed /\ st[s].released = 0

\* C10: a stream scope is released at most once, and exactly once when no
\* stream was registered for it (the muxer's OpenStream failed or addStream
\* returned ErrConnClosed); then no stream is returned and the handler is
\* not invoked.
C10_ScopeOnFailure ==
    \A s \in Streams :
        /\ st[s].released <= 1
        /\ st[s].released = 1 => st[s].scoped
        /\ st[s].pc = "failed" =>
              /\ ~st[s].added /\ ~st[s].handled
              /\ st[s].err \notin {"unset", Nil}
              /\ st[s].scoped <=> st[s].err \in {muxErr, ErrConnClosed}
              /\ st[s].scoped => st[s].released = 1
        /\ st[s].pc = "returned" => (st[s].added /\ st[s].err = Nil)
        /\ st[s].handled => st[s].added

\* C10 witness: one NewStream failed in the muxer and one accepted stream
\* found the connection closed; both scopes are released.
C10_Witness ==
    \E s, t \in Streams :
        /\ st[s].err = muxErr /\ st[s].released = 1
        /\ st[t].dir = "in" /\ st[t].err = ErrConnClosed /\ st[t].released = 1

NextConn ==
    \/ \E s \in Streams, o \in {"limited", "refused", "muxFailed", "ok"} :
          NewStream(s, o) /\ UNCHANGED <<dialVars, lisVars, gateVars, tdialVars, rankVars, pbVars, pmVars>>
    \/ \E s \in Streams : addStream(s) /\ UNCHANGED <<dialVars, lisVars, gateVars, tdialVars, rankVars, pbVars, pmVars>>
    \/ \E s \in Streams, op \in {"Close", "Reset", "ResetWithError"} :
          StreamClose(s, op) /\ UNCHANGED <<dialVars, lisVars, gateVars, tdialVars, rankVars, pbVars, pmVars>>
    \/ \E s \in Streams : completeAcceptStreamGoroutine(s) /\ UNCHANGED <<dialVars, lisVars, gateVars, tdialVars, rankVars, pbVars, pmVars>>
    \/ \E s \in Streams, b \in BOOLEAN : AcceptStream(s, b) /\ UNCHANGED <<dialVars, lisVars, gateVars, tdialVars, rankVars, pbVars, pmVars>>
    \/ AcceptStreamError /\ UNCHANGED <<dialVars, lisVars, gateVars, tdialVars, rankVars, pbVars, pmVars>>
    \/ \E n \in Notifiees : Connected(n) /\ UNCHANGED <<dialVars, lisVars, gateVars, tdialVars, rankVars, pbVars, pmVars>>
    \/ ConnectedDone /\ UNCHANGED <<dialVars, lisVars, gateVars, tdialVars, rankVars, pbVars, pmVars>>
    \/ \E k \in Closers, code \in {0, 1}, cb \in BOOLEAN : Close(k, code, cb) /\ UNCHANGED <<dialVars, lisVars, gateVars, tdialVars, rankVars, pbVars, pmVars>>
    \/ doCloseNilStreams /\ UNCHANGED <<dialVars, lisVars, gateVars, tdialVars, rankVars, pbVars, pmVars>>
    \/ \E e \in {Nil, closeErr} : doCloseConn(e) /\ UNCHANGED <<dialVars, lisVars, gateVars, tdialVars, rankVars, pbVars, pmVars>>
    \/ \E s \in Streams : doCloseReset(s) /\ UNCHANGED <<dialVars, lisVars, gateVars, tdialVars, rankVars, pbVars, pmVars>>
    \/ doCloseReturn /\ UNCHANGED <<dialVars, lisVars, gateVars, tdialVars, rankVars, pbVars, pmVars>>
    \/ \E k \in Closers : CloseReturn(k) /\ UNCHANGED <<dialVars, lisVars, gateVars, tdialVars, rankVars, pbVars, pmVars>>
    \/ DisconnectLock /\ UNCHANGED <<dialVars, lisVars, gateVars, tdialVars, rankVars, pbVars, pmVars>>
    \/ \E n \in Notifiees : Disconnected(n) /\ UNCHANGED <<dialVars, lisVars, gateVars, tdialVars, rankVars, pbVars, pmVars>>
    \/ DisconnectDone /\ UNCHANGED <<dialVars, lisVars, gateVars, tdialVars, rankVars, pbVars, pmVars>>

(***************************************************************************)
(* listener (p2p/net/upgrader/listener.go)                                 *)
(*                                                                         *)
(* handleIncoming is one goroutine; every raw connection it takes from the *)
(* GatedMaListener gets its own upgrade goroutine. listener.incoming is an *)
(* unbuffered channel: a send is a rendezvous with a receiver, which is    *)
(* either a listener.Accept call or the drain loop of listener.Close.      *)
(* Raw connections arrive in the order of their numbers.                   *)
(***************************************************************************)
Conns == 1..MaxConns
NoConn == 0

\* error values of the listener
ErrListenerClosed == "transport.ErrListenerClosed"
errListenerClosedFmt == "fmt.Errorf(listener closed)"
errClosedNetConn == "use of closed network connection"
errAcceptPermanent == "accept failed"
errAcceptTemporary == "too many open files"

\* the text of an error: the sentinel and the error made in handleIncoming's
\* deferred function read the same but are different values
ErrorText(e) ==
    IF e \in {ErrListenerClosed, errListenerClosedFmt} THEN "listener closed" ELSE e

NoRawConn ==
    [pc |-> "raw",        \* position of the connection / of its upgrade goroutine
     refused |-> FALSE,   \* the gater's InterceptAccept refused it
     scopes |-> 0,        \* scopes opened for it by rcmgr.OpenConnection
     scopeDone |-> 0,     \* connScope.Done calls made by the listener
     deadline |-> FALSE,  \* the acceptTimeout of its upgrade context has expired
     acquired |-> 0,      \* threshold.Acquire calls of its goroutine
     released |-> 0,      \* threshold.Release calls of its goroutine
     sent |-> 0,          \* sends of the connection on listener.incoming
     closes |-> 0,        \* closes of the connection by the listener's code
     code |-> "none"]     \* how it was closed

InitListener ==
    /\ rc = [c \in Conns |-> NoRawConn]
    /\ hi = [pc |-> "check", cur |-> NoConn, temp |-> FALSE]
    /\ lerr = Nil
    /\ ctxCancelled = FALSE
    /\ gmlClosed = FALSE
    /\ incomingClosed = FALSE
    /\ thresholdCount = 0
    /\ app = [pc |-> "idle", conn |-> NoConn, err |-> "unset", called |-> FALSE]
    /\ lcl = "idle"

\* the upgrade goroutines that wg.Wait waits for
InFlight == {c \in Conns : rc[c].pc \in {"upgrading", "select"}}

\* the next raw connection the OS hands out
NextRaw(c) == rc[c].pc = "raw" /\ \A d \in Conns : d < c => rc[d].pc /= "raw"

\* ---- gatedMaListener.Accept ----
InterceptAcceptRefusedMut(g) == FALSE
\* l.connGater != nil && !l.connGater.InterceptAccept(conn)
InterceptAcceptRefused(g) == g = "refuse"

\* handleIncoming's call of GatedMaListener.Accept takes raw connection c.
\* g is the gater's answer ("none": no gater configured), r the resource
\* manager's. A refused connection is closed and Accept goes on to the next;
\* an admitted one is returned with its scope and handleIncoming moves on
\* to threshold.Wait.
gatedMaListenerAccept(c, g, r) ==
    /\ hi.pc = "accept"
    /\ ~gmlClosed
    /\ NextRaw(c)
    /\ IF InterceptAcceptRefused(g)
         THEN /\ rc' = [rc EXCEPT ![c].pc = "gaterRefused", ![c].refused = (g = "refuse"),
                                  ![c].closes = 1, ![c].code = "Close"]
              /\ UNCHANGED hi
         ELSE IF r = "fail"
         THEN /\ rc' = [rc EXCEPT ![c].pc = "rcmgrRefused", ![c].refused = (g = "refuse"),
                                  ![c].closes = 1, ![c].code = "Close"]
              /\ UNCHANGED hi
         ELSE /\ rc' = [rc EXCEPT ![c].pc = "wait", ![c].refused = (g = "refuse"),
                                  ![c].scopes = 1]
              /\ hi' = [hi EXCEPT !.pc = "wait", !.cur = c]
    /\ UNCHANGED <<lerr, ctxCancelled, gmlClosed, incomingClosed, thresholdCount, app, lcl>>

\* ---- listener.handleIncoming ----
\* for l.ctx.Err() == nil { ... }: the loop head. Leaving the loop runs the
\* deferred function up to wg.Wait.
DeferredErr(e) == IF e = Nil THEN errListenerClosedFmt ELSE e

handleIncomingCheck ==
    /\ hi.pc = "check"
    /\ IF ctxCancelled
         THEN /\ hi' = [hi EXCEPT !.pc = "wgWait"]
              /\ gmlClosed' = TRUE
              /\ lerr' = DeferredErr(lerr)
         ELSE /\ hi' = [hi EXCEPT !.pc = "accept"]
              /\ UNCHANGED <<gmlClosed, lerr>>
    /\ UNCHANGED <<rc, ctxCancelled, incomingClosed, thresholdCount, app, lcl>>

IsTemporaryMut(e) == FALSE
\* catcher.IsTemporary(err)
IsTemporary(e) == e = errAcceptTemporary

\* GatedMaListener.Accept returns an error: a temporary one is skipped, any
\* other is stored in l.err and ends the loop. A closed listener fails with
\* "use of closed network connection".
AcceptErrors == IF gmlClosed THEN {errClosedNetConn}
                ELSE {errAcceptTemporary, errAcceptPermanent}

handleIncomingAcceptError(e) ==
    /\ hi.pc = "accept"
    /\ e \in AcceptErrors
    /\ IF IsTemporary(e)
         THEN /\ hi' = [hi EXCEPT !.pc = "check", !.temp = TRUE]
              /\ UNCHANGED <<gmlClosed, lerr>>
         ELSE /\ hi' = [hi EXCEPT !.pc = "wgWait"]
              /\ gmlClosed' = TRUE
              /\ lerr' = DeferredErr(e)
    /\ UNCHANGED <<rc, ctxCancelled, incomingClosed, thresholdCount, app, lcl>>

\* a GatedMaListener that returns a connection without a scope:
\* maconn.Close(); continue
handleIncomingNilScope(c) ==
    /\ hi.pc = "accept"
    /\ ~gmlClosed
    /\ NextRaw(c)
    /\ rc' = [rc EXCEPT ![c].pc = "nilScope", ![c].closes = 1, ![c].code = "Close"]
    /\ hi' = [hi EXCEPT !.pc = "check"]
    /\ UNCHANGED <<lerr, ctxCancelled, gmlClosed, incomingClosed, thresholdCount, app, lcl>>

\* threshold.Wait blocks while the counter has reached the limit
WaitBlocked(n) == n >= AcceptQueueLength

handleIncomingSpawnNoWait ==
    /\ hi.pc = "wait"
    /\ rc' = [rc EXCEPT ![hi.cur].pc = "upgrading"]
    /\ hi' = [hi EXCEPT !.pc = "check", !.cur = NoConn]
    /\ UNCHANGED <<lerr, ctxCancelled, gmlClosed, incomingClosed, thresholdCount, app, lcl>>

handleIncomingSpawnSerial ==
    /\ hi.pc = "wait"
    /\ ~WaitBlocked(thresholdCount)
    /\ InFlight = {}
    /\ rc' = [rc EXCEPT ![hi.cur].pc = "upgrading"]
    /\ hi' = [hi EXCEPT !.pc = "check", !.cur = NoConn]
    /\ UNCHANGED <<lerr, ctxCancelled, gmlClosed, incomingClosed, thresholdCount, app, lcl>>

\* l.threshold.Wait() returns; wg.Add(1); go func() {...}
handleIncomingSpawn ==
    /\ hi.pc = "wait"
    /\ ~WaitBlocked(thresholdCount)
    /\ rc' = [rc EXCEPT ![hi.cur].pc = "upgrading"]
    /\ hi' = [hi EXCEPT !.pc = "check", !.cur = NoConn]
    /\ UNCHANGED <<lerr, ctxCancelled, gmlClosed, incomingClosed, thresholdCount, app, lcl>>

WgDoneMut == TRUE
\* wg.Wait() returns when every upgrade goroutine has called wg.Done
WgDone == InFlight = {}

\* the end of the deferred function: wg.Wait(); close(l.incoming)
handleIncomingWgWait ==
    /\ hi.pc = "wgWait"
    /\ WgDone
    /\ hi' = [hi EXCEPT !.pc = "done"]
    /\ incomingClosed' = TRUE
    /\ UNCHANGED <<rc, lerr, ctxCancelled, gmlClosed, thresholdCount, app, lcl>>

\* ---- the upgrade goroutine of one connection ----
\* ctx of context.WithTimeout(l.ctx, l.upgrader.acceptTimeout) is done
upgradeCtxDoneMut(c) == TRUE
upgradeCtxDoneNoCancel(c) == rc[c].deadline
upgradeCtxDone(c) == rc[c].deadline \/ ctxCancelled

\* the acceptTimeout has expired when the goroutine is at the select (an
\* expiry during Upgrade shows here if Upgrade succeeded all the same)
acceptTimeoutExpires(c) ==
    /\ rc[c].pc = "select"
    /\ ~rc[c].deadline
    /\ rc' = [rc EXCEPT ![c].deadline = TRUE]
    /\ UNCHANGED <<hi, lerr, ctxCancelled, gmlClosed, incomingClosed, thresholdCount,
                   app, lcl>>

\* threshold.Acquire: it never blocks
Acquire(n) == n + 1

\* threshold.Release
ReleaseSlot(n) == n - 1

connScopeDoneMut(n) == n
\* connScope.Done() after a failed Upgrade
connScopeDone(n) == n + 1

\* l.upgrader.Upgrade returns. On an error the scope is released and the
\* goroutine ends; otherwise it takes a threshold slot and goes on to the
\* select.
upgrade(c, ok) ==
    /\ rc[c].pc = "upgrading"
    /\ IF ok
         THEN /\ rc' = [rc EXCEPT ![c].pc = "select", ![c].acquired = @ + 1]
              /\ thresholdCount' = Acquire(thresholdCount)
         ELSE /\ rc' = [rc EXCEPT ![c].pc = "failed",
                                  ![c].scopeDone = connScopeDone(@)]
              /\ UNCHANGED thresholdCount
    /\ UNCHANGED <<hi, lerr, ctxCancelled, gmlClosed, incomingClosed, app, lcl>>

\* case l.incoming <- conn, received by listener.Accept; then the deferred
\* threshold.Release. Accept returns the connection unless c.IsClosed().
sendToAccept(c, isClosed) ==
    /\ rc[c].pc = "select"
    /\ app.pc = "recv"
    /\ rc' = [rc EXCEPT ![c].pc = IF isClosed THEN "skipped" ELSE "delivered",
                        ![c].sent = @ + 1, ![c].released = @ + 1]
    /\ thresholdCount' = ReleaseSlot(thresholdCount)
    /\ app' = IF isClosed THEN app
              ELSE [app EXCEPT !.pc = "idle", !.conn = c, !.err = Nil]
    /\ UNCHANGED <<hi, lerr, ctxCancelled, gmlClosed, incomingClosed, lcl>>

\* case l.incoming <- conn, received by the drain loop of listener.Close,
\* which closes the connection
sendToDrain(c) ==
    /\ rc[c].pc = "select"
    /\ lcl \in {"drain", "drain2"}
    /\ rc' = [rc EXCEPT ![c].pc = "drained", ![c].sent = @ + 1, ![c].released = @ + 1,
                        ![c].closes = @ + 1, ![c].code = "Close"]
    /\ thresholdCount' = ReleaseSlot(thresholdCount)
    /\ UNCHANGED <<hi, lerr, ctxCancelled, gmlClosed, incomingClosed, app, lcl>>

\* case <-ctx.Done(): conn.CloseWithError(network.ConnRateLimited)
rateLimited(c) ==
    /\ rc[c].pc = "select"
    /\ upgradeCtxDone(c)
    /\ rc' = [rc EXCEPT ![c].pc = "rateLimited", ![c].released = @ + 1,
                        ![c].closes = @ + 1, ![c].code = "ConnRateLimited"]
    /\ thresholdCount' = ReleaseSlot(thresholdCount)
    /\ UNCHANGED <<hi, lerr, ctxCancelled, gmlClosed, incomingClosed, app, lcl>>

\* ---- listener.Accept ----
listenerAccept ==
    /\ app.pc = "idle"
    /\ app' = [pc |-> "recv", conn |-> NoConn, err |-> "unset", called |-> TRUE]
    /\ UNCHANGED <<rc, hi, lerr, ctxCancelled, gmlClosed, incomingClosed, thresholdCount,
                   lcl>>

\* strings.Contains(l.err.Error(), "use of closed network connection")
ContainsClosed(e) == ErrorText(e) = errClosedNetConn

\* what Accept returns once l.incoming is closed
AcceptErr(e) == IF ContainsClosed(e) THEN ErrListenerClosed ELSE e

listenerAcceptError ==
    /\ app.pc = "recv"
    /\ incomingClosed
    /\ app' = [app EXCEPT !.pc = "idle", !.err = AcceptErr(lerr)]
    /\ UNCHANGED <<rc, hi, lerr, ctxCancelled, gmlClosed, incomingClosed, thresholdCount,
                   lcl>>

\* ---- listener.Close ----
\* err := l.GatedMaListener.Close()
\* A second call of Close, made after the first has returned, goes through
\* the same statements at the positions "cancel2", "drain2", "returned2".
listenerCloseGated ==
    /\ lcl \in {"idle", "returned"}
    /\ lcl' = IF lcl = "idle" THEN "cancel" ELSE "cancel2"
    /\ gmlClosed' = TRUE
    /\ UNCHANGED <<rc, hi, lerr, ctxCancelled, incomingClosed, thresholdCount, app>>

\* l.cancel()
listenerCloseCancel ==
    /\ lcl \in {"cancel", "cancel2"}
    /\ lcl' = IF lcl = "cancel" THEN "drain" ELSE "drain2"
    /\ ctxCancelled' = TRUE
    /\ UNCHANGED <<rc, hi, lerr, gmlClosed, incomingClosed, thresholdCount, app>>

\* for c := range l.incoming ends when the channel is closed
Drained == incomingClosed

listenerCloseReturn ==
    /\ lcl \in {"drain", "drain2"}
    /\ Drained
    /\ lcl' = IF lcl = "drain" THEN "returned" ELSE "returned2"
    /\ UNCHANGED <<rc, hi, lerr, ctxCancelled, gmlClosed, incomingClosed, thresholdCount,
                   app>>

(***************************************************************************)
(* Claims about the listener                                               *)
(***************************************************************************)
\* the connections that completed their upgrade and wait to be received
Undelivered == {c \in Conns : rc[c].pc = "select"}

\* C11 as stated: the threshold counter never exceeds AcceptQueueLength.
C11_Original == thresholdCount <= AcceptQueueLength

C11_Inv == thresholdCount = Cardinality(Undelivered)

C11_Act ==
    \A c \in Conns :
        (rc[c].pc = "wait" /\ rc'[c].pc = "upgrading") =>
            thresholdCount < AcceptQueueLength

\* C11: the threshold counter is the number of connections that completed
\* their upgrade and were neither received from listener.incoming nor closed
\* by their goroutine, and handleIncoming starts an upgrade goroutine only
\* while the counter is below AcceptQueueLength (upgrades already started
\* still take a slot when they complete, so the counter can pass the limit).
C11_CounterBoundsNewUpgrades == []C11_Inv /\ [][C11_Act]_vars

\* C11 witness: the counter is at the limit and handleIncoming holds an
\* accepted connection in threshold.Wait.
C11_Witness ==
    /\ thresholdCount = AcceptQueueLength
    /\ hi.pc = "wait"
    /\ \E c \in Conns : rc[c].pc = "select" /\ rc[c].acquired = 1

\* a step in which handleIncoming calls the gated listener's Accept, or in
\* which that call takes a raw connection
RawAcceptStep ==
    \/ hi.pc = "check" /\ hi'.pc = "accept"
    \/ \E c \in Conns : rc[c].pc = "raw" /\ rc'[c].pc /= "raw"

C12_Act ==
    /\ (thresholdCount >= AcceptQueueLength /\ hi.pc = "wait") => hi' = hi
    /\ thresholdCount >= AcceptQueueLength =>
          \A c \in Conns : rc[c].pc = "wait" => rc'[c].pc = "wait"
    /\ thresholdCount' < thresholdCount =>
          \E c \in Undelivered :
              rc'[c].pc \in {"delivered", "skipped", "drained", "rateLimited"}

IsClosed(c) == rc[c].closes > 0 \/ rc[c].pc = "skipped"

\* C13: when listener.Close has returned, the listener context is cancelled,
\* no upgrade goroutine is running, listener.incoming is closed, and every
\* connection that completed its upgrade and was not returned by
\* listener.Accept is closed.
C13_CloseJoinsAndDrains ==
    lcl = "returned" =>
        /\ ctxCancelled /\ gmlClosed
        /\ InFlight = {} /\ hi.pc = "done"
        /\ incomingClosed
        /\ \A c \in Conns :
              (rc[c].acquired > 0 /\ rc[c].pc /= "delivered") => IsClosed(c)

\* C13 witness: Close has returned; one upgraded connection was received and
\* closed by its drain loop and another was closed by its own goroutine.
C13_Witness ==
    /\ lcl = "returned"
    /\ \E c, d \in Conns : rc[c].pc = "drained" /\ rc[d].pc = "rateLimited"

\* listener.Accept has returned an error
AcceptReturnedError == app.pc = "idle" /\ app.conn = NoConn /\ app.err /= "unset"

C14_Inv ==
    /\ lerr /= errAcceptTemporary
    /\ app.err /= errAcceptTemporary
    /\ app.pc = "idle" => (app.conn = NoConn <=> app.err /= Nil)
    /\ lerr \in {errAcceptPermanent, errClosedNetConn} => hi.pc \in {"wgWait", "done"}
    /\ incomingClosed => lerr /= Nil
    /\ AcceptReturnedError =>
          /\ incomingClosed
          /\ app.err /= Nil
          /\ lerr = errAcceptPermanent => app.err = errAcceptPermanent

C14_Act ==
    /\ (~hi.temp /\ hi'.temp) => (hi'.pc = "check" /\ lerr' = lerr)
    /\ (hi.pc = "accept" /\ hi'.pc = "wgWait") =>
          lerr' \in {errAcceptPermanent, errClosedNetConn}
    /\ (incomingClosed /\ app.pc = "recv" /\ app'.pc = "idle") =>
          app'.conn = NoConn /\ app'.err \notin {"unset", Nil}

\* C14: a temporary error of the gated listener's Accept leaves the loop
\* running and is never stored in l.err nor returned by listener.Accept; any
\* other error is stored in l.err and ends the loop, and once l.incoming is
\* closed every listener.Accept call returns a non-nil error, which is l.err
\* itself for an error that is not a closed-socket error.
C14_AcceptErrors == []C14_Inv /\ [][C14_Act]_vars

\* C14 witness: a temporary error was skipped, a connection was delivered
\* after it, then a permanent error ended the loop and Accept returned it.
C14_Witness ==
    /\ hi.temp
    /\ \E c \in Conns : rc[c].pc = "delivered"
    /\ lerr = errAcceptPermanent
    /\ AcceptReturnedError /\ app.err = errAcceptPermanent

\* C15: after listener.Close has returned (and no permanent Accept error
\* had ended the loop), a listener.Accept call that returns no connection
\* returns the value transport.ErrListenerClosed.
C15_SentinelAfterClose ==
    (lcl = "returned" /\ AcceptReturnedError /\ lerr /= errAcceptPermanent) =>
        app.err = ErrListenerClosed

\* C16: an upgrade that has not returned blocks nothing else. While the
\* upgrade of c is running, handleIncoming can take its next step (call
\* Accept, take the next raw connection, and start its upgrade if the
\* counter is below AcceptQueueLength), and the upgrade of any other
\* connection can complete and be handed to a waiting listener.Accept.
C16_UpgradesIndependent ==
    \A c \in Conns : rc[c].pc = "upgrading" =>
        /\ hi.pc = "check" => ENABLED handleIncomingCheck
        /\ (hi.pc = "accept" /\ ~gmlClosed) =>
              \A d \in Conns : NextRaw(d) => ENABLED gatedMaListenerAccept(d, "allow", "ok")
        /\ (hi.pc = "wait" /\ thresholdCount < AcceptQueueLength) =>
              ENABLED handleIncomingSpawn
        /\ \A d \in Conns \ {c} :
              /\ rc[d].pc = "upgrading" => ENABLED upgrade(d, TRUE)
              /\ (rc[d].pc = "select" /\ app.pc = "recv") =>
                    ENABLED sendToAccept(d, FALSE)

\* C16 witness: the upgrade of an earlier connection is still running while
\* a connection accepted after it has been upgraded and returned by Accept.
C16_Witness ==
    \E c, d \in Conns :
        /\ c < d
        /\ rc[c].pc = "upgrading"
        /\ rc[d].pc = "delivered" /\ app.pc = "idle" /\ app.conn = d

\* C17 as stated: an upgraded connection that is still waiting in the
\* select when its deadline has expired or the listener context is cancelled
\* is closed with ConnRateLimited: it is not received from the queue any more.
C17_Original ==
    [][\A c \in Conns :
          (rc[c].pc = "select" /\ upgradeCtxDone(c)) =>
              rc'[c].pc \in {"select", "rateLimited"}]_vars

C17_Inv ==
    \A c \in Conns :
        /\ rc[c].sent <= 1 /\ rc[c].acquired <= 1
        /\ rc[c].pc = "select" => (rc[c].acquired = 1 /\ rc[c].released = 0)
        /\ rc[c].pc \in {"delivered", "skipped", "drained"} =>
              /\ rc[c].sent = 1 /\ rc[c].released = 1
              /\ rc[c].code /= "ConnRateLimited"
        /\ rc[c].pc = "rateLimited" =>
              /\ rc[c].sent = 0 /\ rc[c].released = 1
              /\ rc[c].code = "ConnRateLimited" /\ rc[c].closes = 1
        /\ rc[c].acquired = 1 =>
              rc[c].pc \in {"select", "delivered", "skipped", "drained", "rateLimited"}

C17_Act ==
    \A c \in Conns :
        /\ (rc[c].pc /= "rateLimited" /\ rc'[c].pc = "rateLimited") =>
              (rc[c].pc = "select" /\ (rc[c].deadline \/ ctxCancelled))
        /\ rc[c].pc = "rateLimited" => rc'[c] = rc[c]
        /\ rc[c].sent = 1 => rc'[c] = rc[c]

\* C17: the upgrade goroutine waits in the select under the context of its
\* Upgrade call. An upgraded connection leaves the select in exactly one
\* way: it is sent on listener.incoming once (to listener.Accept, or to the
\* drain of listener.Close), or, only when that context is done (deadline
\* expired or listener context cancelled), it is closed once with
\* ConnRateLimited and never sent afterwards; either way its threshold slot
\* is released exactly once.
C17_SentOrRateLimited == []C17_Inv /\ [][C17_Act]_vars

\* C17 witness: the deadline of one upgraded connection expired while the
\* listener was open and its goroutine closed it with ConnRateLimited;
\* another connection was delivered.
C17_Witness ==
    \E c, d \in Conns :
        /\ rc[c].pc = "rateLimited" /\ rc[c].deadline /\ ~ctxCancelled
        /\ rc[c].code = "ConnRateLimited" /\ rc[c].released = 1
        /\ rc[d].pc = "delivered"

C18_Inv ==
    \A c \in Conns :
        /\ rc[c].scopeDone <= 1
        /\ rc[c].scopeDone = 1 <=> rc[c].pc = "failed"
        /\ rc[c].pc = "failed" =>
              /\ rc[c].scopes = 1
              /\ rc[c].acquired = 0 /\ rc[c].sent = 0
              /\ app.conn /= c
        /\ rc[c].pc = "nilScope" =>
              /\ rc[c].closes = 1 /\ rc[c].scopes = 0 /\ rc[c].scopeDone = 0
              /\ rc[c].acquired = 0 /\ rc[c].sent = 0
              /\ app.conn /= c

C18_Act ==
    \A c \in Conns :
        /\ (rc[c].pc = "upgrading" /\ rc'[c].pc = "failed") =>
              /\ hi' = hi /\ lerr' = lerr /\ app' = app
              /\ thresholdCount' = thresholdCount
              /\ incomingClosed' = incomingClosed
        /\ (rc[c].pc = "raw" /\ rc'[c].pc = "nilScope") =>
              /\ hi'.pc = "check" /\ lerr' = lerr /\ app' = app
              /\ thresholdCount' = thresholdCount

\* C18: a failed Upgrade changes neither l.err nor what listener.Accept
\* returns nor the threshold counter nor the position of handleIncoming;
\* the listener calls connScope.Done exactly once for that connection and
\* for no other. A connection accepted with a nil scope is closed once and
\* handleIncoming goes back to the head of its loop.
C18_BadConnSkipped == []C18_Inv /\ [][C18_Act]_vars

\* C18 witness: one upgrade failed and one connection came without a scope,
\* and handleIncoming is calling Accept again.
C18_Witness ==
    /\ \E c, d \in Conns :
          /\ rc[c].pc = "failed" /\ rc[c].scopeDone = 1
          /\ rc[d].pc = "nilScope" /\ rc[d].closes = 1
    /\ hi.pc = "accept" /\ lerr = Nil /\ ~incomingClosed

\* the connections gatedMaListener.Accept has returned
Returned == {c \in Conns : rc[c].pc \notin {"raw", "gaterRefused", "rcmgrRefused", "nilScope"}}

C20_Inv ==
    \A c \in Conns :
        /\ rc[c].scopes <= 1
        /\ rc[c].pc = "gaterRefused" =>
              (rc[c].refused /\ rc[c].closes = 1 /\ rc[c].scopes = 0)
        /\ rc[c].pc = "rcmgrRefused" =>
              (~rc[c].refused /\ rc[c].closes = 1 /\ rc[c].scopes = 0)
        /\ c \in Returned => (~rc[c].refused /\ rc[c].scopes = 1)
        /\ hi.cur = c => (rc[c].pc = "wait" /\ rc[c].closes = 0)

C20_Act ==
    \A c \in Conns :
        (rc[c].pc = "raw" /\ rc'[c].pc \in {"gaterRefused", "rcmgrRefused"}) =>
            (hi' = hi /\ hi.pc = "accept" /\ lerr' = lerr)

\* C20: gatedMaListener.Accept returns a connection only if the gater did
\* not refuse it and rcmgr.OpenConnection then gave it a scope, and it
\* returns it with exactly that one scope. A connection the gater refuses is
\* closed with no scope opened, one the resource manager refuses is closed,
\* and in both cases Accept stays in its loop and returns no error.
C20_GatedAccept == []C20_Inv /\ [][C20_Act]_vars

\* C20 witness: the gater refused one raw connection, Accept went on and
\* returned the next one with its scope.
C20_Witness ==
    \E c, d \in Conns :
        /\ c < d
        /\ rc[c].pc = "gaterRefused" /\ rc[c].closes = 1
        /\ rc[d].pc = "wait" /\ hi.cur = d /\ rc[d].scopes = 1

\* ---- scheduling of the listener ----
\* Every goroutine that can take a step takes it: handleIncoming at the head
\* of its loop, at the return of threshold.Wait and at wg.Wait, the upgrade
\* goroutine at its select once its context is done, and the caller of
\* Close. Two steps rest on the environment: the gated listener's Accept
\* fails once the listener is closed, and Upgrade returns once its context
\* is cancelled.
AcceptFailsWhenClosed ==
    gmlClosed /\ handleIncomingAcceptError(errClosedNetConn)

UpgradeReturnsWhenCancelled(c) ==
    ctxCancelled /\ \E ok \in BOOLEAN : upgrade(c, ok)

ListenerFairness ==
    /\ WF_vars(handleIncomingCheck /\ UNCHANGED <<dialVars, connVars, gateVars, tdialVars, rankVars, pbVars, pmVars>>)
    /\ WF_vars(AcceptFailsWhenClosed /\ UNCHANGED <<dialVars, connVars, gateVars, tdialVars, rankVars, pbVars, pmVars>>)
    /\ WF_vars(handleIncomingSpawn /\ UNCHANGED <<dialVars, connVars, gateVars, tdialVars, rankVars, pbVars, pmVars>>)
    /\ WF_vars(handleIncomingWgWait /\ UNCHANGED <<dialVars, connVars, gateVars, tdialVars, rankVars, pbVars, pmVars>>)
    /\ WF_vars(listenerCloseCancel /\ UNCHANGED <<dialVars, connVars, gateVars, tdialVars, rankVars, pbVars, pmVars>>)
    /\ WF_vars(listenerCloseReturn /\ UNCHANGED <<dialVars, connVars, gateVars, tdialVars, rankVars, pbVars, pmVars>>)
    /\ \A c \in Conns :
          /\ WF_vars(UpgradeReturnsWhenCancelled(c) /\ UNCHANGED <<dialVars, connVars, gateVars, tdialVars, rankVars, pbVars, pmVars>>)
          /\ WF_vars(rateLimited(c) /\ UNCHANGED <<dialVars, connVars, gateVars, tdialVars, rankVars, pbVars, pmVars>>)

\* C35: a call of listener.Close eventually returns, wherever handleIncoming
\* and the upgrade goroutines are when it is made, given that the gated
\* listener's Accept fails once it is closed and that Upgrade returns once
\* its context is cancelled; a second call of Close returns as well.
C35_CloseReturns ==
    /\ (lcl = "cancel") ~> (lcl = "returned")
    /\ (lcl = "cancel2") ~> (lcl = "returned2")

\* C35 witness: both calls of Close have returned, and the first one was
\* made while an upgrade goroutine was blocked in its select (it left by
\* the cancellation, its deadline not expired) and a raw connection accepted
\* after that one was still to be upgraded.
C35_Witness ==
    /\ lcl = "returned2"
    /\ \E c, d \in Conns :
          /\ c < d
          /\ rc[c].pc = "rateLimited" /\ ~rc[c].deadline
          /\ rc[d].pc \in {"failed", "rateLimited"} /\ ~rc[d].deadline

NextListener ==
    \/ \E c \in Conns, g \in {"none", "allow", "refuse"}, r \in {"ok", "fail"} :
          gatedMaListenerAccept(c, g, r) /\ UNCHANGED <<dialVars, connVars, gateVars, tdialVars, rankVars, pbVars, pmVars>>
    \/ handleIncomingCheck /\ UNCHANGED <<dialVars, connVars, gateVars, tdialVars, rankVars, pbVars, pmVars>>
    \/ \E e \in {errAcceptTemporary, errAcceptPermanent, errClosedNetConn} :
          handleIncomingAcceptError(e) /\ UNCHANGED <<dialVars, connVars, gateVars, tdialVars, rankVars, pbVars, pmVars>>
    \/ \E c \in Conns : handleIncomingNilScope(c) /\ UNCHANGED <<dialVars, connVars, gateVars, tdialVars, rankVars, pbVars, pmVars>>
    \/ handleIncomingSpawn /\ UNCHANGED <<dialVars, connVars, gateVars, tdialVars, rankVars, pbVars, pmVars>>
    \/ handleIncomingWgWait /\ UNCHANGED <<dialVars, connVars, gateVars, tdialVars, rankVars, pbVars, pmVars>>
    \/ \E c \in Conns : acceptTimeoutExpires(c) /\ UNCHANGED <<dialVars, connVars, gateVars, tdialVars, rankVars, pbVars, pmVars>>
    \/ \E c \in Conns, ok \in BOOLEAN : upgrade(c, ok) /\ UNCHANGED <<dialVars, connVars, gateVars, tdialVars, rankVars, pbVars, pmVars>>
    \/ \E c \in Conns, b \in BOOLEAN : sendToAccept(c, b) /\ UNCHANGED <<dialVars, connVars, gateVars, tdialVars, rankVars, pbVars, pmVars>>
    \/ \E c \in Conns : sendToDrain(c) /\ UNCHANGED <<dialVars, connVars, gateVars, tdialVars, rankVars, pbVars, pmVars>>
    \/ \E c \in Conns : rateLimited(c) /\ UNCHANGED <<dialVars, connVars, gateVars, tdialVars, rankVars, pbVars, pmVars>>
    \/ listenerAccept /\ UNCHANGED <<dialVars, connVars, gateVars, tdialVars, rankVars, pbVars, pmVars>>
    \/ listenerAcceptError /\ UNCHANGED <<dialVars, connVars, gateVars, tdialVars, rankVars, pbVars, pmVars>>
    \/ listenerCloseGated /\ UNCHANGED <<dialVars, connVars, gateVars, tdialVars, rankVars, pbVars, pmVars>>
    \/ listenerCloseCancel /\ UNCHANGED <<dialVars, connVars, gateVars, tdialVars, rankVars, pbVars, pmVars>>
    \/ listenerCloseReturn /\ UNCHANGED <<dialVars, connVars, gateVars, tdialVars, rankVars, pbVars, pmVars>>

(***************************************************************************)
(* Connection gater checkpoints                                            *)
(*                                                                         *)
(* A connection attempt, inbound or outbound, asks the gater at a fixed    *)
(* list of checkpoints. The order is the one the gating tests expect with  *)
(* gomock.InOrder; the code that walks through it (swarm dial, upgrader)   *)
(* is modelled from the specification's description of the upgrade.        *)
(***************************************************************************)
Attempts == 1..MaxAttempts

InboundCheckpointsMut == <<"InterceptSecured", "InterceptAccept", "InterceptUpgraded">>
\* TestInterceptUpgradedIncoming
InboundCheckpoints == <<"InterceptAccept", "InterceptSecured", "InterceptUpgraded">>
\* TestInterceptUpgradedOutgoing
OutboundCheckpoints ==
    <<"InterceptPeerDial", "InterceptAddrDial", "InterceptSecured", "InterceptUpgraded">>

Checkpoints(dir) == IF dir = "DirInbound" THEN InboundCheckpoints ELSE OutboundCheckpoints

NoAttempt == [dir |-> "none", log |-> <<>>, result |-> "none"]

InitGater == att = [a \in Attempts |-> NoAttempt]

\* a raw connection arrives, or a caller dials a peer
startAttempt(a, dir) ==
    /\ att[a].dir = "none"
    /\ att' = [att EXCEPT ![a] = [dir |-> dir, log |-> <<>>, result |-> "pending"]]

\* what becomes of the attempt after a checkpoint answered
Verdict(allow, last) ==
    IF ~allow THEN "refused" ELSE IF last THEN "connected" ELSE "pending"

\* the attempt reaches its next checkpoint and the gater answers
intercept(a, allow) ==
    /\ att[a].result = "pending"
    /\ LET cps == Checkpoints(att[a].dir)
           n == Len(att[a].log) + 1
       IN  att' = [att EXCEPT
                     ![a].log = Append(@, [cp |-> cps[n], allow |-> allow]),
                     ![a].result = Verdict(allow, n = Len(cps))]

\* the attempt fails between two checkpoints (dial, handshake, muxer or
\* resource error)
attemptFails(a) ==
    /\ att[a].result = "pending"
    /\ att' = [att EXCEPT ![a].result = "failed"]

NextGater ==
    \/ \E a \in Attempts, dir \in {"DirInbound", "DirOutbound"} :
          startAttempt(a, dir) /\ UNCHANGED <<dialVars, connVars, lisVars, tdialVars, rankVars, pbVars, pmVars>>
    \/ \E a \in Attempts, allow \in BOOLEAN :
          intercept(a, allow) /\ UNCHANGED <<dialVars, connVars, lisVars, tdialVars, rankVars, pbVars, pmVars>>
    \/ \E a \in Attempts : attemptFails(a) /\ UNCHANGED <<dialVars, connVars, lisVars, tdialVars, rankVars, pbVars, pmVars>>

\* the order of the checkpoints as claimed
ClaimedOrder(dir) ==
    IF dir = "DirInbound"
      THEN <<"InterceptAccept", "InterceptSecured", "InterceptUpgraded">>
      ELSE <<"InterceptPeerDial", "InterceptAddrDial", "InterceptSecured",
             "InterceptUpgraded">>

\* the checkpoints asked so far, in order
Asked(a) == [i \in 1..Len(att[a].log) |-> att[a].log[i].cp]

C19_Inv ==
    \A a \in Attempts : att[a].dir /= "none" =>
        /\ Len(att[a].log) <= Len(ClaimedOrder(att[a].dir))
        /\ Asked(a) = SubSeq(ClaimedOrder(att[a].dir), 1, Len(att[a].log))
        /\ \A i \in 1..Len(att[a].log) :
              ~att[a].log[i].allow =>
                  (i = Len(att[a].log) /\ att[a].result = "refused")
        /\ att[a].result = "connected" => Asked(a) = ClaimedOrder(att[a].dir)

C19_Act ==
    \A a \in Attempts :
        att[a].result \in {"refused", "failed", "connected"} => att'[a] = att[a]

TDials == 1..MaxTDials

ErrPeerIDMismatch == "sec.ErrPeerIDMismatch"
errSetPeer == "SetPeer refused"
errRawDial == "raw dial failed"
errTracing == "newTracingConn failed"
errHandshakeIO == "error reading handshake message"
errSignature == "handshake signature invalid"
errUpgrade == "upgrade failed"

NoMismatch == [Expected |-> "", Actual |-> ""]

NoTDial ==
    [pc |-> "idle",
     tpt |-> "none",        \* "tcp": TcpTransport, "ws": WebsocketTransport
     p |-> "",              \* the expected peer ("": not known)
     scopes |-> 0,          \* scopes opened by rcmgr.OpenConnection
     scopeDone |-> 0,       \* connScope.Done calls of DialWithUpdates / Dial
     rawDials |-> 0,        \* raw dials attempted
     rawCloses |-> 0,       \* closes of the raw connection by the code modelled
     remoteID |-> "",       \* secureSession.remoteID
     remoteKey |-> "none",  \* secureSession.remoteKey
     actual |-> "",         \* the identity the remote's handshake payload carries
     hsErr |-> "unset",     \* result of runHandshake
     mismatch |-> NoMismatch, \* the fields of the ErrPeerIDMismatch value
     ctxDone |-> FALSE,     \* the dial context is done
     sess |-> "unset",      \* the session newSecureSession returned: "s" or "nil"
     sessErr |-> "unset",   \* the error newSecureSession returned
     err |-> "unset",       \* the error the dial call returned
     conn |-> FALSE]        \* the dial call returned a connection

InitTDial == td = [d \in TDials |-> NoTDial]

dialScopeDoneMut(n) == n
\* connScope.Done() in DialWithUpdates / Dial when dialWithScope failed
dialScopeDone(n) == n + 1

\* dialWithScope returns err: connScope.Done(); return nil, err
DialFails(r, e) ==
    [r EXCEPT !.pc = "returned", !.err = e, !.scopeDone = dialScopeDone(@)]

\* connScope, err := t.rcmgr.OpenConnection(...)
OpenConnection(d, tpt, p, ok) ==
    /\ td[d].pc = "idle"
    /\ td' = [td EXCEPT ![d] =
                IF ok THEN [@ EXCEPT !.pc = "opened", !.tpt = tpt, !.p = p, !.scopes = 1]
                      ELSE [@ EXCEPT !.pc = "returned", !.tpt = tpt, !.p = p, !.err = rmErr]]

\* TcpTransport.dialWithScope: connScope.SetPeer(p)
SetPeer(d, ok) ==
    /\ td[d].pc = "opened" /\ td[d].tpt = "tcp"
    /\ td' = [td EXCEPT ![d] =
                IF ok THEN [@ EXCEPT !.pc = "peerSet"] ELSE DialFails(@, errSetPeer)]

\* t.maDial(ctx, raddr). The websocket maDial also wraps the connection and
\* closes it if the wrap fails.
maDial(d, outcome) ==
    /\ \/ td[d].pc = "peerSet" /\ td[d].tpt = "tcp" /\ outcome \in {"ok", "fail"}
       \/ td[d].pc = "opened" /\ td[d].tpt = "ws"
    /\ td' = [td EXCEPT ![d] =
                CASE outcome = "ok" ->
                       [@ EXCEPT !.pc = IF @ = "opened" THEN "wrapped" ELSE "dialed",
                                 !.rawDials = @ + 1]
                  [] outcome = "fail" ->
                       [DialFails(@, errRawDial) EXCEPT !.rawDials = @ + 1]
                  [] outcome = "wrapFail" ->
                       [DialFails(@, errRawDial) EXCEPT !.rawDials = @ + 1,
                                                        !.rawCloses = @ + 1]]

\* TcpTransport.dialWithScope: newTracingConn when metrics are enabled
newTracingConn(d, ok) ==
    /\ td[d].pc = "dialed"
    /\ td' = [td EXCEPT ![d] =
                IF ok THEN [@ EXCEPT !.pc = "wrapped"] ELSE DialFails(@, errTracing)]

\* t.upgrader.Upgrade(...) reaches newSecureSession: the session is created
\* with remoteID = the expected peer and the handshake goroutine is started
newSecureSession(d) ==
    /\ td[d].pc = "wrapped"
    /\ td' = [td EXCEPT ![d].pc = "handshake", ![d].remoteID = td[d].p]

\* checkPeerID as the security transport passes it for an outbound dial
checkPeerID(r) == r.p /= ""

PeerIDMismatchMut(r, id) == FALSE
\* s.checkPeerID && s.remoteID != id
PeerIDMismatch(r, id) == checkPeerID(r) /\ r.remoteID /= id

\* newSecureSession returns (sess, e)
SessionReturns(r, sess, e) == [r EXCEPT !.sess = sess, !.sessErr = e]

respChReadyMut(r) == TRUE
\* <-respCh can complete: the handshake goroutine has written its result
respChReady(r) == r.pc = "hsDone"

\* runHandshake fails before the remote payload is handled
runHandshakeError(d) ==
    /\ td[d].pc \in {"handshake", "cancelWait"}
    /\ td' = [td EXCEPT ![d] =
                IF @.pc = "handshake"
                  THEN [@ EXCEPT !.pc = "hsDone", !.hsErr = errHandshakeIO]
                  ELSE [DialFails(SessionReturns(@, "nil", ctxErr), ctxErr)
                          EXCEPT !.hsErr = errHandshakeIO]]

\* runHandshake reaches handleRemoteHandshakePayload; the payload carries
\* the identity id and a signature
handleRemoteHandshakePayload(d, id, sigOK) ==
    /\ td[d].pc \in {"handshake", "cancelWait"}
    /\ LET r == td[d]
           s == IF PeerIDMismatch(r, id)
                  THEN [r EXCEPT !.actual = id, !.hsErr = ErrPeerIDMismatch,
                                 !.mismatch = [Expected |-> r.remoteID, Actual |-> id]]
                ELSE IF ~sigOK
                  THEN [r EXCEPT !.actual = id, !.hsErr = errSignature]
                  ELSE [r EXCEPT !.actual = id, !.hsErr = Nil,
                                 !.remoteID = id, !.remoteKey = id]
       IN  td' = [td EXCEPT ![d] =
                    IF r.pc = "handshake" THEN [s EXCEPT !.pc = "hsDone"]
                                          ELSE DialFails(SessionReturns(s, "nil", ctxErr),
                                                         ctxErr)]

\* the dial context is cancelled or times out
dialCtxCancelled(d) ==
    /\ td[d].pc \in {"handshake", "hsDone"}
    /\ ~td[d].ctxDone
    /\ td' = [td EXCEPT ![d].ctxDone = TRUE]

\* newSecureSession: case err := <-respCh
sessionResult(d) ==
    /\ td[d].pc = "hsDone"
    /\ td' = [td EXCEPT ![d] =
                IF @.hsErr = Nil
                  THEN [SessionReturns(@, "s", Nil) EXCEPT !.pc = "secured"]
                  ELSE [DialFails(SessionReturns(@, "s", @.hsErr), @.hsErr)
                          EXCEPT !.rawCloses = @ + 1]]

\* newSecureSession: case <-ctx.Done(): close the connection, wait for the
\* handshake goroutine, return ctx.Err()
sessionCtxDone(d) ==
    /\ td[d].pc \in {"handshake", "hsDone"}
    /\ td[d].ctxDone
    /\ td' = [td EXCEPT ![d] =
                IF respChReady(@)
                  THEN [DialFails(SessionReturns(@, "nil", ctxErr), ctxErr)
                          EXCEPT !.rawCloses = @ + 1]
                  ELSE [@ EXCEPT !.pc = "cancelWait", !.rawCloses = @ + 1]]

\* the rest of Upgrade (muxer, gater, SetPeer): a connection or an error
upgradeRest(d, ok) ==
    /\ td[d].pc = "secured"
    /\ td' = [td EXCEPT ![d] =
                IF ok THEN [@ EXCEPT !.pc = "returned", !.err = Nil, !.conn = TRUE]
                      ELSE DialFails(@, errUpgrade)]

NextTDial ==
    \/ \E d \in TDials, tpt \in {"tcp", "ws"}, p \in {"", "A"}, ok \in BOOLEAN :
          OpenConnection(d, tpt, p, ok) /\ UNCHANGED <<dialVars, connVars, lisVars, gateVars, rankVars, pbVars, pmVars>>
    \/ \E d \in TDials, ok \in BOOLEAN :
          SetPeer(d, ok) /\ UNCHANGED <<dialVars, connVars, lisVars, gateVars, rankVars, pbVars, pmVars>>
    \/ \E d \in TDials, o \in {"ok", "fail", "wrapFail"} :
          maDial(d, o) /\ UNCHANGED <<dialVars, connVars, lisVars, gateVars, rankVars, pbVars, pmVars>>
    \/ \E d \in TDials, ok \in BOOLEAN :
          newTracingConn(d, ok) /\ UNCHANGED <<dialVars, connVars, lisVars, gateVars, rankVars, pbVars, pmVars>>
    \/ \E d \in TDials :
          newSecureSession(d) /\ UNCHANGED <<dialVars, connVars, lisVars, gateVars, rankVars, pbVars, pmVars>>
    \/ \E d \in TDials :
          runHandshakeError(d) /\ UNCHANGED <<dialVars, connVars, lisVars, gateVars, rankVars, pbVars, pmVars>>
    \/ \E d \in TDials, id \in {"A", "B"}, sigOK \in BOOLEAN :
          handleRemoteHandshakePayload(d, id, sigOK)
             /\ UNCHANGED <<dialVars, connVars, lisVars, gateVars, rankVars, pbVars, pmVars>>
    \/ \E d \in TDials :
          dialCtxCancelled(d) /\ UNCHANGED <<dialVars, connVars, lisVars, gateVars, rankVars, pbVars, pmVars>>
    \/ \E d \in TDials :
          sessionResult(d) /\ UNCHANGED <<dialVars, connVars, lisVars, gateVars, rankVars, pbVars, pmVars>>
    \/ \E d \in TDials :
          sessionCtxDone(d) /\ UNCHANGED <<dialVars, connVars, lisVars, gateVars, rankVars, pbVars, pmVars>>
    \/ \E d \in TDials, ok \in BOOLEAN :
          upgradeRest(d, ok) /\ UNCHANGED <<dialVars, connVars, lisVars, gateVars, rankVars, pbVars, pmVars>>

\* C22: the scope a transport dial opened is released by the dial path exactly
\* once if the dial fails at any later step (SetPeer refused, raw dial failure,
\* tracing-wrap failure, upgrade failure) and not at all when a connection is
\* returned; if OpenConnection fails no scope is released and no raw dial is
\* attempted; if SetPeer is refused no raw dial is attempted.
C22_ScopeDoneOnFailure ==
    \A d \in TDials :
       LET r == td[d] IN
       /\ r.scopeDone <= r.scopes
       /\ (r.pc = "returned" /\ r.scopes = 1 /\ ~r.conn) => r.scopeDone = 1
       /\ (r.pc /= "returned" \/ r.conn) => r.scopeDone = 0
       /\ r.conn => (r.pc = "returned" /\ r.scopes = 1 /\ r.err = Nil)
       /\ r.err = rmErr => (r.scopes = 0 /\ r.scopeDone = 0 /\ r.rawDials = 0)
       /\ r.err = errSetPeer => r.rawDials = 0

C22_Witness ==
    \E d \in TDials :
       /\ td[d].pc = "returned" /\ td[d].err = errUpgrade
       /\ td[d].scopes = 1 /\ td[d].scopeDone = 1 /\ td[d].rawDials = 1

\* C21: on an outbound dial with a known expected peer, a remote whose verified
\* identity differs makes the handshake fail with ErrPeerIDMismatch carrying
\* the expected and the actual identity; the session's remote identity and key
\* are not set from the payload, and once the dial has returned the raw
\* connection is closed, the scope is Done exactly once and no connection is
\* returned.
C21_MismatchFailsDial ==
    \A d \in TDials :
       LET r == td[d] IN
       (r.p /= "" /\ r.actual /= "" /\ r.actual /= r.p) =>
          /\ r.hsErr = ErrPeerIDMismatch
          /\ r.mismatch = [Expected |-> r.p, Actual |-> r.actual]
          /\ r.remoteID = r.p
          /\ r.remoteKey = "none"
          /\ r.pc \in {"hsDone", "returned"}
          /\ r.pc = "returned" =>
                /\ r.rawCloses >= 1
                /\ r.scopeDone = 1
                /\ ~r.conn
                /\ r.err \in {ErrPeerIDMismatch, ctxErr}

C21_Witness ==
    \E d \in TDials :
       /\ td[d].p = "A" /\ td[d].actual = "B"
       /\ td[d].pc = "returned" /\ td[d].err = ErrPeerIDMismatch

(***************************************************************************)
(* Dial rankers (p2p/net/swarm/dial_ranker.go).                            *)
(*                                                                         *)
(* A multiaddress is reduced to what the rankers look at: whether it is a  *)
(* circuit address, whether its IP is private, its IP version (0: no IP    *)
(* component), its transport and its port. Delays are in milliseconds.     *)
(***************************************************************************)
PublicTCPDelay == 250
PrivateTCPDelay == 30
PublicQUICDelay == 250
PrivateQUICDelay == 30
RelayDelay == 500
PublicOtherDelay == 1000
PrivateOtherDelay == 100

Addr(relay, pvt, ip, tr, port) ==
    [relay |-> relay, pvt |-> pvt, ip |-> ip, tr |-> tr, port |-> port]

\* the addresses the rankers are called with
Addrs ==
    { Addr(FALSE, FALSE, 6, "quic-v1", 2),
      Addr(FALSE, FALSE, 6, "quic", 1),
      Addr(FALSE, FALSE, 4, "quic-v1", 1),
      Addr(FALSE, FALSE, 4, "quic-v1", 2),
      Addr(FALSE, FALSE, 4, "webtransport", 1),
      Addr(FALSE, FALSE, 6, "webtransport", 1),
      Addr(FALSE, FALSE, 6, "tcp", 1),
      Addr(FALSE, FALSE, 4, "tcp", 1),
      Addr(FALSE, FALSE, 4, "tcp", 2),
      Addr(FALSE, FALSE, 4, "webrtc-direct", 1),
      Addr(FALSE, TRUE, 4, "quic-v1", 1),
      Addr(FALSE, TRUE, 6, "quic-v1", 1),
      Addr(FALSE, TRUE, 4, "tcp", 1),
      Addr(FALSE, TRUE, 4, "webrtc-direct", 1),
      Addr(TRUE, FALSE, 4, "quic-v1", 1),
      Addr(TRUE, FALSE, 4, "tcp", 1),
      Addr(FALSE, FALSE, 0, "onion3", 1) }

\* the address lists: at most MaxAddrs addresses, none twice
AddrLists ==
    UNION { { s \in [1..n -> Addrs] : \A i, j \in 1..n : s[i] = s[j] => i = j }
            : n \in 0..MaxAddrs }

isRelayAddr(a) == a.relay
IsPrivateAddr(a) == a.ip /= 0 /\ a.pvt
\* isProtocolAddr(a, ma.P_IP4) || isProtocolAddr(a, ma.P_IP6)
hasIP(a) == a.ip \in {4, 6}
isTCPAddr(a) == a.tr = "tcp"
isQUICAddr(a) == a.tr \in {"quic", "quic-v1", "webtransport"}

score(a) ==
    LET ip4Weight == IF a.ip = 4 THEN 2^18 ELSE 0 IN
    CASE a.tr = "webtransport" -> ip4Weight + 2^19 + a.port
      [] a.tr = "quic" -> ip4Weight + a.port + 2^17
      [] a.tr = "quic-v1" -> ip4Weight + a.port
      [] a.tr = "tcp" -> ip4Weight + a.port + 2^20
      [] a.tr = "webrtc-direct" -> 2^21
      [] OTHER -> 2^30

\* the predicates DefaultDialRanker filters with
holds(f, a) ==
    CASE f = "isRelayAddr" -> isRelayAddr(a)
      [] f = "IsPrivateAddr" -> IsPrivateAddr(a)
      [] f = "hasIP" -> hasIP(a)

SwapMut(arr, i, j) == [arr EXCEPT ![i] = arr[j]]
Swap(arr, i, j) == [arr EXCEPT ![i] = arr[j], ![j] = arr[i]]

RECURSIVE filterLoop(_, _, _, _)
filterLoop(arr, f, i, j) ==
    IF i > Len(arr)
      THEN [filtered |-> SubSeq(arr, 1, j - 1), rest |-> SubSeq(arr, j, Len(arr))]
    ELSE IF holds(f, arr[i])
      THEN filterLoop(Swap(arr, i, j), f, i + 1, j + 1)
      ELSE filterLoop(arr, f, i + 1, j)

\* filterAddrs filters the slice in place
filterAddrs(addrs, f) == filterLoop(addrs, f, 1, 1)

\* sort.Slice by score; for the short lists dialed it is an insertion sort
RECURSIVE sortByScore(_)
sortByScore(s) ==
    IF Len(s) <= 1 THEN s
    ELSE LET n == Len(s)
             front == sortByScore(SubSeq(s, 1, n - 1))
             k == Cardinality({i \in 1..(n - 1) : score(front[i]) <= score(s[n])})
         IN  SubSeq(front, 1, k) \o <<s[n]>> \o SubSeq(front, k + 1, n - 1)

\* move the element at position j to position k <= j, shifting the others
MoveTo(s, j, k) ==
    SubSeq(s, 1, k - 1) \o <<s[j]>> \o SubSeq(s, k, j - 1) \o SubSeq(s, j + 1, Len(s))

Min(S) == CHOOSE x \in S : \A y \in S : x <= y

\* the reordering for happy eyeballs; positions are counted from 1
happyEyeballs(sorted) ==
    LET n == Len(sorted)
        q4 == {j \in 2..n : isQUICAddr(sorted[j]) /\ sorted[j].ip = 4}
        heQUIC == isQUICAddr(sorted[1]) /\ sorted[1].ip = 6 /\ q4 /= {}
        s1 == IF heQUIC THEN MoveTo(sorted, Min(q4), 2) ELSE sorted
        i == IF heQUIC THEN Min(q4) + 1 ELSE 1
        tcps == {k \in i..n : isTCPAddr(s1[k])}
        tcpStartIdx == IF tcps = {} THEN n + 1 ELSE Min(tcps)
        t4 == {j \in (tcpStartIdx + 1)..n : isTCPAddr(s1[j]) /\ s1[j].ip = 4}
        heTCP == tcpStartIdx <= n /\ s1[tcpStartIdx].ip = 6 /\ t4 /= {}
        s2 == IF heTCP THEN MoveTo(s1, Min(t4), tcpStartIdx + 1) ELSE s1
    IN  [addrs |-> s2, happyEyeballsQUIC |-> heQUIC, happyEyeballsTCP |-> heTCP,
         tcpStartIdx |-> tcpStartIdx]

HappyEyeballsFactorMut(he) == 1
\* dials after the second position: 2*delay with happy eyeballs, else delay
HappyEyeballsFactor(he) == IF he THEN 2 ELSE 1

TCPFirstDialDelayMut(delay, tcpDelay) == 0
\* tcpFirstDialDelay = delay + tcpDelay
TCPFirstDialDelay(delay, tcpDelay) == delay + tcpDelay

OtherTransportDelayMut(last, otherDelay) == 0
\* default case: delay = lastQUICOrTCPDelay + otherDelay
OtherTransportDelay(last, otherDelay) == last + otherDelay

RECURSIVE delayLoop(_, _, _, _, _, _, _, _, _)
delayLoop(h, i, tcpFirstDialDelay, lastQUICOrTCPDelay, res, tcpDelay, quicDelay, otherDelay, offset) ==
    IF i > Len(h.addrs) THEN res
    ELSE
      LET addr == h.addrs[i]
          quic == IF i = 2 THEN quicDelay
                  ELSE IF i > 2 THEN HappyEyeballsFactor(h.happyEyeballsQUIC) * quicDelay
                  ELSE 0
          tcp == (IF i = h.tcpStartIdx + 1 THEN tcpDelay
                  ELSE IF i > h.tcpStartIdx + 1
                         THEN HappyEyeballsFactor(h.happyEyeballsTCP) * tcpDelay
                  ELSE 0) + tcpFirstDialDelay
          delay == IF isQUICAddr(addr) THEN quic
                   ELSE IF isTCPAddr(addr) THEN tcp
                   ELSE OtherTransportDelay(lastQUICOrTCPDelay, otherDelay)
      IN  delayLoop(h, i + 1,
                    IF isQUICAddr(addr) THEN TCPFirstDialDelay(delay, tcpDelay)
                                        ELSE tcpFirstDialDelay,
                    IF isQUICAddr(addr) \/ isTCPAddr(addr) THEN delay
                                                           ELSE lastQUICOrTCPDelay,
                    Append(res, [Addr |-> addr, Delay |-> offset + delay]),
                    tcpDelay, quicDelay, otherDelay, offset)

getAddrDelay(addrs, tcpDelay, quicDelay, otherDelay, offset) ==
    IF Len(addrs) = 0 THEN <<>>
    ELSE delayLoop(happyEyeballs(sortByScore(addrs)), 1, 0, 0, <<>>,
                   tcpDelay, quicDelay, otherDelay, offset)

NoDelayDialRankerMut(addrs) == getAddrDelay(addrs, 0, PublicQUICDelay, 0, 0)
NoDelayDialRanker(addrs) == getAddrDelay(addrs, 0, 0, 0, 0)

RelayOffsetMut(public, pvt) == IF Len(public) > 0 \/ Len(pvt) > 0 THEN RelayDelay ELSE 0
\* if len(public) > 0 { relayOffset = RelayDelay }
RelayOffset(public, pvt) == IF Len(public) > 0 THEN RelayDelay ELSE 0

MaxDelayOf(res) ==
    IF Len(res) > 0
      THEN CHOOSE m \in {res[i].Delay : i \in 1..Len(res)} :
              \A i \in 1..Len(res) : res[i].Delay <= m
      ELSE 0
\* maxDelay = res[len(res)-1].Delay
LastDelayOf(res) == IF Len(res) > 0 THEN res[Len(res)].Delay ELSE 0

DefaultDialRanker(addrs) ==
    LET r == filterAddrs(addrs, "isRelayAddr")
        p == filterAddrs(r.rest, "IsPrivateAddr")
        u == filterAddrs(p.rest, "hasIP")
        relayOffset == RelayOffset(u.filtered, p.filtered)
        res == getAddrDelay(p.filtered, PrivateTCPDelay, PrivateQUICDelay,
                            PrivateOtherDelay, 0)
               \o getAddrDelay(u.filtered, PublicTCPDelay, PublicQUICDelay,
                               PublicOtherDelay, 0)
               \o getAddrDelay(r.filtered, PublicTCPDelay, PublicQUICDelay,
                               PublicOtherDelay, relayOffset)
        maxDelay == LastDelayOf(res)
    IN  res \o [i \in 1..Len(u.rest) |->
                   [Addr |-> u.rest[i], Delay |-> maxDelay + PublicOtherDelay]]

NoRank == [pc |-> "idle", addrs |-> <<>>, res |-> <<>>, again |-> <<>>]

InitRank == rk = NoRank

\* the swarm hands an address list to a ranker
rankerInput ==
    /\ rk.pc = "idle"
    /\ \E addrs \in AddrLists : rk' = [rk EXCEPT !.pc = "input", !.addrs = addrs]

\* a call of DefaultDialRanker
callDefaultDialRanker ==
    /\ rk.pc = "input"
    /\ rk' = [rk EXCEPT !.pc = "default", !.res = DefaultDialRanker(rk.addrs)]

\* a call of NoDelayDialRanker, and a second call with the addresses of its
\* result
callNoDelayDialRanker ==
    /\ rk.pc = "input"
    /\ LET res == NoDelayDialRanker(rk.addrs) IN
       rk' = [rk EXCEPT !.pc = "nodelay", !.res = res,
                        !.again = NoDelayDialRanker([i \in 1..Len(res) |-> res[i].Addr])]

NextRank ==
    \/ rankerInput /\ UNCHANGED <<dialVars, connVars, lisVars, gateVars, tdialVars, pbVars, pmVars>>
    \/ callDefaultDialRanker /\ UNCHANGED <<dialVars, connVars, lisVars, gateVars, tdialVars, pbVars, pmVars>>
    \/ callNoDelayDialRanker /\ UNCHANGED <<dialVars, connVars, lisVars, gateVars, tdialVars, pbVars, pmVars>>

\* the content of a ranking: its (address, delay) pairs
Content(res) == {res[i] : i \in 1..Len(res)}

\* the reorderings of a list
Reorderings(s) ==
    { [i \in 1..Len(s) |-> s[f[i]]] :
        f \in {g \in [1..Len(s) -> 1..Len(s)] : \A i, j \in 1..Len(s) : g[i] = g[j] => i = j} }

\* C23: NoDelayDialRanker returns each input address exactly once with delay
\* 0; the content of the result does not depend on the order of the input, and
\* ranking the addresses of the output again yields the same content.
C23_NoDelay ==
    rk.pc = "nodelay" =>
       /\ Len(rk.res) = Len(rk.addrs)
       /\ \A i \in 1..Len(rk.addrs) :
             Cardinality({j \in 1..Len(rk.res) : rk.res[j].Addr = rk.addrs[i]}) = 1
       /\ \A j \in 1..Len(rk.res) : rk.res[j].Delay = 0
       /\ \A q \in Reorderings(rk.addrs) : Content(NoDelayDialRanker(q)) = Content(rk.res)
       /\ Content(rk.again) = Content(rk.res)

C23_Witness ==
    /\ rk.pc = "nodelay"
    /\ Len(rk.addrs) = MaxAddrs
    /\ \E i \in 1..Len(rk.res) : rk.res[i].Addr /= rk.addrs[i]
    /\ \E i, j \in 1..Len(rk.addrs) : isQUICAddr(rk.addrs[i]) /\ isTCPAddr(rk.addrs[j])

\* ---- what DefaultDialRanker returned, by address and by group ----
Input == {rk.addrs[i] : i \in 1..Len(rk.addrs)}
\* the delay DefaultDialRanker assigned to address a of the input
DelayOf(a) == (CHOOSE e \in Content(rk.res) : e.Addr = a).Delay

GroupOf(a) ==
    IF isRelayAddr(a) THEN "relay"
    ELSE IF IsPrivateAddr(a) THEN "private"
    ELSE IF hasIP(a) THEN "public"
    ELSE "other"
Group(g) == {a \in Input : GroupOf(a) = g}
QUICIncrement(g) == IF g = "private" THEN PrivateQUICDelay ELSE PublicQUICDelay
TCPIncrement(g) == IF g = "private" THEN PrivateTCPDelay ELSE PublicTCPDelay
OtherIncrement(g) == IF g = "private" THEN PrivateOtherDelay ELSE PublicOtherDelay

\* QUIC v1 and QUIC draft-29 addresses
isPlainQUIC(a) == a.tr \in {"quic", "quic-v1"}
LowestPort(S) == {a \in S : \A b \in S : a.port <= b.port}
BestRanked(S) == {a \in S : \A b \in S : score(a) <= score(b)}

GroupList(g) == SelectSeq(rk.addrs, LAMBDA a : GroupOf(a) = g)
\* the delay the transport ranking alone gives relay address a
RelayTransportDelay(a) ==
    (CHOOSE e \in Content(getAddrDelay(GroupList("relay"), PublicTCPDelay,
                                       PublicQUICDelay, PublicOtherDelay, 0)) :
        e.Addr = a).Delay

C26_RelayDelayedByAnyAlternative ==
    rk.pc = "default" =>
       (Group("private") \cup Group("public") /= {} =>
           \A a \in Group("relay") : DelayOf(a) = RelayTransportDelay(a) + RelayDelay)

MaxOf(S) == CHOOSE m \in S : \A x \in S : x <= m

\* C27: within the private or the public group, when a QUIC or WebTransport
\* address is present the first-ranked TCP address is delayed by the delay of
\* the last QUIC address plus the group's TCP delay, and no TCP address gets a
\* smaller delay than a QUIC address of the group; without a QUIC address the
\* first-ranked TCP address gets delay 0. The later TCP addresses follow the
\* 0 / one-increment / two-increment tiers relative to the first TCP address.
C27_TCPAfterQUIC ==
    rk.pc = "default" =>
       \A g \in {"private", "public"} :
          LET Q == {a \in Group(g) : isQUICAddr(a)}
              T == {a \in Group(g) : isTCPAddr(a)}
              T4 == {a \in T : a.ip = 4}
              first == BestRanked(T)
              inc == TCPIncrement(g)
              base == IF Q = {} THEN 0 ELSE MaxOf({DelayOf(b) : b \in Q}) + inc
          IN  /\ \A a \in first : DelayOf(a) = base
              /\ \A a \in T, b \in Q : DelayOf(a) >= DelayOf(b)
              /\ IF T4 /= {} /\ \E a \in first : a.ip = 6
                   THEN /\ \A a \in BestRanked(T4) : DelayOf(a) = base + inc
                        /\ \A a \in T \ (first \cup BestRanked(T4)) :
                              DelayOf(a) = base + 2 * inc
                   ELSE \A a \in T \ first : DelayOf(a) = base + inc

C27_Witness ==
    /\ rk.pc = "default"
    /\ \E q, a, b \in Group("public") :
          /\ isQUICAddr(q) /\ DelayOf(q) = 0
          /\ isTCPAddr(a) /\ a.ip = 6 /\ DelayOf(a) = PublicTCPDelay
          /\ isTCPAddr(b) /\ b.ip = 4 /\ DelayOf(b) = 2 * PublicTCPDelay

\* an address that is neither QUIC, WebTransport nor TCP
isOtherTransport(a) == ~isQUICAddr(a) /\ ~isTCPAddr(a)
\* the entries of the private, public and relay groups, as ranked
Ranked == SubSeq(rk.res, 1, Len(rk.res) - Cardinality(Group("other")))

\* C28: the addresses left over after the private, public and relay groups
\* get the maximum delay assigned to any address of those groups plus
\* PublicOtherDelay.
C28_OtherAfterMaximum ==
    rk.pc = "default" =>
       \A a \in Group("other") : DelayOf(a) = MaxDelayOf(Ranked) + PublicOtherDelay

C40_RankerKeepsAddresses ==
    rk.pc = "default" =>
       /\ Len(rk.res) = Len(rk.addrs)
       /\ \A i \in 1..Len(rk.addrs) :
             Cardinality({j \in 1..Len(rk.res) : rk.res[j].Addr = rk.addrs[i]}) = 1
       /\ \A j \in 1..Len(rk.res) : rk.res[j].Addr \in Input /\ rk.res[j].Delay >= 0

C40_Witness ==
    /\ rk.pc = "default"
    /\ Len(rk.addrs) = MaxAddrs
    /\ Group("relay") /= {} /\ Group("other") /= {} /\ Group("private") /= {}
    /\ GroupOf(rk.addrs[1]) = "other" /\ GroupOf(rk.addrs[MaxAddrs]) = "relay"

\* C37: newSecureSession never returns while its handshake goroutine is still
\* running, and whenever it returns an error the insecure connection has been
\* closed; when it returns because the context is done, the connection was
\* closed, the goroutine has finished, and the result is the context error
\* with no session.
C37_SessionJoinsHandshake ==
    \A d \in TDials :
       LET r == td[d] IN
       /\ r.sess = "unset" <=> r.sessErr = "unset"
       /\ r.sess /= "unset" =>
             /\ r.hsErr /= "unset"
             /\ r.pc \notin {"handshake", "cancelWait"}
             /\ r.sessErr /= Nil => r.rawCloses >= 1
             /\ r.sessErr \in {r.hsErr, ctxErr}
             /\ r.sessErr = ctxErr => (r.sess = "nil" /\ r.ctxDone)
             /\ r.sessErr = Nil => (r.hsErr = Nil /\ r.sess = "s" /\ r.rawCloses = 0)

C37_Witness ==
    \E d \in TDials :
       /\ td[d].sessErr = ctxErr /\ td[d].sess = "nil"
       /\ td[d].hsErr = Nil /\ td[d].rawCloses = 1

\* C33: no caller ever sends on a request channel that has been closed and no
\* request channel is closed twice: a caller in its send holds a reference on
\* a registered activeDial whose channel is open, the channel is closed only
\* in the step that brings refCnt to zero, and a Dial arriving after the
\* teardown gets a fresh activeDial.
C33_Inv ==
    /\ \A c \in Callers :
          /\ caller[c].pc # "panic"
          /\ caller[c].pc = "send" =>
                /\ ~ad[caller[c].ad].reqchClosed
                /\ ad[caller[c].ad].refCnt > 0
                /\ dials[caller[c].peer] = caller[c].ad
    /\ \A a \in Callers : ad[a].closes <= 1 /\ (ad[a].reqchClosed <=> ad[a].closes = 1)

C33_Act ==
    /\ \A a \in Callers :
          ad'[a].closes # ad[a].closes =>
             /\ ad[a].refCnt = 1 /\ ad'[a].refCnt = 0
             /\ \E c \in Callers : Leaves(c, a)
    /\ \A c \in Callers :
          (caller[c].pc = "idle" /\ caller'[c].pc = "send") =>
             ~ad'[caller'[c].ad].reqchClosed

C33_NoSendAfterClose == []C33_Inv /\ [][C33_Act]_vars

\* a Dial call arrives after the previous activeDial of the peer was torn
\* down and sends on the fresh one
C33_Witness ==
    \E c, d \in Callers :
        /\ c # d
        /\ caller[c].peer = caller[d].peer
        /\ caller[c].pc = "done" /\ ad[caller[c].ad].closes = 1
        /\ caller[d].pc = "wait" /\ caller[d].ad = d

\* A Dial call that can take a step of its own takes it: the select of
\* activeDial.dial does not ignore a ready ctx.Done() forever and ds.mutex is
\* eventually acquired. Nothing is assumed of the dial worker.
DialFairness ==
    \A c \in Callers :
       /\ WF_vars(DialCtxDone(c) /\ UNCHANGED <<connVars, lisVars, gateVars, tdialVars, rankVars, pbVars, pmVars>>)
       /\ WF_vars(Release(c) /\ UNCHANGED <<connVars, lisVars, gateVars, tdialVars, rankVars, pbVars, pmVars>>)

\* C34: every Dial call whose context is done eventually returns, even if the
\* dial worker never receives its request or never replies; it returns the
\* context's error unless a response arrived first, and once it has returned
\* it holds no reference.
C34_CancelledDialReturns ==
    \A c \in Callers :
       /\ (caller[c].pc \in {"send", "wait", "release"} /\ caller[c].ctxDone)
             ~> (caller[c].pc = "done")
       /\ [](caller[c].pc = "done" =>
               /\ c \notin Holders(caller[c].ad)
               /\ caller[c].err \in {ctxErr, Nil, dialErr}
               /\ caller[c].err = ctxErr => caller[c].ctxDone)

\* a cancelled Dial call has returned its context's error although the
\* worker still holds its request unanswered
C34_Witness ==
    \E c \in Callers :
        /\ caller[c].pc = "done" /\ caller[c].err = ctxErr
        /\ worker[caller[c].ad] = "running"
        /\ \E r \in reqs[caller[c].ad] : r.resch = c

\* The goroutines of the connection keep running: the call inside doClose,
\* a call waiting in closeOnce.Do, the notifier delivering Connected, and the
\* notification goroutine of doClose each take their next step when it is
\* possible. Connected and Disconnected callbacks return: a callback calls
\* Close finitely often, so the notifier is not held up forever by ever new
\* calls (strong fairness of its steps).
doCloseSteps ==
    (\/ doCloseNilStreams
     \/ \E e \in {Nil, closeErr} : doCloseConn(e)
     \/ \E s \in Streams : doCloseReset(s)
     \/ doCloseReturn) /\ UNCHANGED <<dialVars, lisVars, gateVars, tdialVars, rankVars, pbVars, pmVars>>
CloseReturnSteps ==
    (\E k \in Closers : CloseReturn(k))
       /\ UNCHANGED <<dialVars, lisVars, gateVars, tdialVars, rankVars, pbVars, pmVars>>
ConnectedSteps ==
    ((\E n \in Notifiees : Connected(n)) \/ ConnectedDone)
       /\ UNCHANGED <<dialVars, lisVars, gateVars, tdialVars, rankVars, pbVars, pmVars>>
DisconnectedSteps ==
    (DisconnectLock \/ (\E n \in Notifiees : Disconnected(n)) \/ DisconnectDone)
       /\ UNCHANGED <<dialVars, lisVars, gateVars, tdialVars, rankVars, pbVars, pmVars>>
ConnFairness ==
    /\ WF_vars(doCloseSteps)
    /\ WF_vars(CloseReturnSteps)
    /\ SF_vars(ConnectedSteps)
    /\ WF_vars(DisconnectedSteps)

\* C31: Close never waits for notifications: a Close called from inside a
\* Connected callback, while the notifier holds the notification lock,
\* returns, and the Disconnected notifications are delivered afterwards, once
\* the Connected notifications have finished.
C31_CloseInCallbackReturns ==
    /\ \A k \in Closers : InCallbackClose(k) ~> (closer[k].pc = "returned")
    /\ (\E k \in Closers : closer[k].cb) ~> (disconnected = Notifiees)
    /\ [](disconnected # {} =>
            /\ connected = Notifiees /\ loop # "notstarted"
            /\ \A k \in Closers : ~InCallbackClose(k))

C31_Witness ==
    \E k \in Closers :
        /\ closer[k].cb /\ closer[k].pc = "returned"
        /\ disconnected = Notifiees

\* the deferred c.Close() of the accept loop
LoopClose ==
    Close(LoopCloser, 0, FALSE) /\ UNCHANGED <<dialVars, lisVars, gateVars, tdialVars, rankVars, pbVars, pmVars>>

\* C36: an inbound stream that the resource manager refuses is reset with
\* StreamResourceLimitExceeded, is not registered and not handed to the
\* stream handler, and the accept loop goes on; the loop ends only when
\* AcceptStream fails, and then its deferred Close closes the connection.
C36_Inv ==
    /\ \A s \in Streams : st[s].ts = "resetLimit" =>
          /\ st[s].pc = "failed" /\ st[s].dir = "in" /\ st[s].err = rmErr
          /\ ~st[s].added /\ ~st[s].handled /\ ~st[s].scoped
          /\ st[s].removed = 0 /\ st[s].released = 0
          /\ s \notin streams.m
    /\ closer[LoopCloser].pc # "idle" => loop = "ended"
    /\ (loop = "ended" /\ closer[LoopCloser].pc = "idle") => ENABLED LoopClose
    /\ closer[LoopCloser].pc = "returned" => connClosed.n = 1

C36_Act ==
    /\ \A s \in Streams :
          (st[s].ts # "resetLimit" /\ st'[s].ts = "resetLimit") =>
             (loop = "accepting" /\ loop' = "accepting")
    /\ (loop = "accepting" /\ loop' # "accepting") =>
          (loop' = "ended" /\ st' = st /\ streams' = streams)

C36_RefusedStreamSkipped == []C36_Inv /\ [][C36_Act]_vars

\* a refused inbound stream was followed by one that reached the handler, and
\* the loop has ended and closed the connection
C36_Witness ==
    \E s, t \in Streams :
        /\ s < t
        /\ st[s].ts = "resetLimit"
        /\ st[t].handled
        /\ closer[LoopCloser].pc = "returned"

\* the streams registered by addStream and not yet removed by removeStream
Registered == {s \in Streams : st[s].added /\ st[s].removed = 0}

\* C39: Stat().NumStreams is never negative and equals the number of streams
\* registered by addStream and not yet removed by removeStream; while the
\* connection is open (doClose has not taken the stream map) it also equals
\* the number of streams GetStreams() returns.
C39_NumStreams ==
    /\ numStreams >= 0
    /\ numStreams = Cardinality(Registered)
    /\ ~streams.nil => (streams.m = Registered /\ numStreams = Cardinality(streams.m))

\* doClose has taken the stream map while a stream is still counted, after
\* another stream was removed
C39_Witness ==
    /\ streams.nil /\ streams.m = {}
    /\ numStreams = 1
    /\ \E s \in Streams : st[s].removed = 1

(***************************************************************************)
(* memoryProtoBook (p2p/host/peerstore/pstoremem/protobook.go)             *)
(*                                                                         *)
(* Every method works on the map of its peer under the segment's lock; the *)
(* one statement outside the lock is the length test at the head of        *)
(* SetProtocols. Calls are made by concurrent callers: a call is entered   *)
(* with its arguments and then takes its locked section in one step.       *)
(***************************************************************************)
PBPeers == {"p1", "p2"}
PBCallers == {"c1", "c2"}
Protos == {"a", "b"}

\* WithMaxProtocols(maxProtos)
maxProtos == 1
\* the longest argument list of a call
MaxProtoArgs == 2

ProtoLists == UNION {[1..n -> Protos] : n \in 0..MaxProtoArgs}

errTooManyProtocols == "too many protocols"

\* the elements of a list
Elems(protos) == {protos[i] : i \in 1..Len(protos)}

\* s.protocols[p] is absent
NoProtoMap == [ok |-> FALSE, m |-> {}]

NoPBCall == [pc |-> "idle", op |-> "none", p |-> "none", protos |-> <<>>, err |-> "unset"]

InitProto ==
    /\ protocols = [p \in PBPeers |-> NoProtoMap]
    /\ pbc = [c \in PBCallers |-> NoPBCall]

\* a caller enters one of the methods
pbCall(c, op, p, protos) ==
    /\ pbc[c].pc = "idle"
    /\ pbc' = [pbc EXCEPT ![c] = [pc |-> "called", op |-> op, p |-> p,
                                  protos |-> IF op = "RemovePeer" THEN <<>> ELSE protos,
                                  err |-> "unset"]]
    /\ UNCHANGED protocols

\* the call returns err
pbReturn(c, err) == [pbc EXCEPT ![c] = [NoPBCall EXCEPT !.err = err]]

setTooManyMut(protos) == FALSE
\* len(protos) > pb.maxProtos
setTooMany(protos) == Len(protos) > maxProtos

\* SetProtocols up to the lock: the length test and the new map
SetProtocolsCheck(c) ==
    /\ pbc[c].pc = "called" /\ pbc[c].op = "SetProtocols"
    /\ IF setTooMany(pbc[c].protos)
         THEN pbc' = pbReturn(c, errTooManyProtocols)
         ELSE pbc' = [pbc EXCEPT ![c].pc = "store"]
    /\ UNCHANGED protocols

\* s.Lock(); s.protocols[p] = newprotos; s.Unlock(); return nil
SetProtocolsStore(c) ==
    /\ pbc[c].pc = "store"
    /\ protocols' = [protocols EXCEPT ![pbc[c].p] = [ok |-> TRUE, m |-> Elems(pbc[c].protos)]]
    /\ pbc' = pbReturn(c, Nil)

addTooManyMut(protomap, protos) == FALSE
\* len(protomap)+len(protos) > pb.maxProtos
addTooMany(protomap, protos) == Cardinality(protomap) + Len(protos) > maxProtos

\* AddProtocols: an absent map is created before the test
AddProtocols(c) ==
    /\ pbc[c].pc = "called" /\ pbc[c].op = "AddProtocols"
    /\ LET p == pbc[c].p
           protomap == protocols[p].m
       IN IF addTooMany(protomap, pbc[c].protos)
            THEN /\ protocols' = [protocols EXCEPT ![p].ok = TRUE]
                 /\ pbc' = pbReturn(c, errTooManyProtocols)
            ELSE /\ protocols' = [protocols EXCEPT
                                    ![p] = [ok |-> TRUE, m |-> protomap \cup Elems(pbc[c].protos)]]
                 /\ pbc' = pbReturn(c, Nil)

\* RemoveProtocols: an emptied map is deleted
RemoveProtocols(c) ==
    /\ pbc[c].pc = "called" /\ pbc[c].op = "RemoveProtocols"
    /\ LET p == pbc[c].p
           left == protocols[p].m \ Elems(pbc[c].protos)
       IN protocols' = IF ~protocols[p].ok THEN protocols
                       ELSE IF left = {} THEN [protocols EXCEPT ![p] = NoProtoMap]
                       ELSE [protocols EXCEPT ![p].m = left]
    /\ pbc' = pbReturn(c, Nil)

\* RemovePeer: delete(s.protocols, p)
pbRemovePeer(c) ==
    /\ pbc[c].pc = "called" /\ pbc[c].op = "RemovePeer"
    /\ protocols' = [protocols EXCEPT ![pbc[c].p] = NoProtoMap]
    /\ pbc' = pbReturn(c, Nil)

\* GetProtocols(p): the keys of s.protocols[p]
GetProtocols(p) == protocols[p].m

NextProto ==
    \/ \E c \in PBCallers, p \in PBPeers, protos \in ProtoLists,
          op \in {"SetProtocols", "AddProtocols", "RemoveProtocols", "RemovePeer"} :
          pbCall(c, op, p, protos) /\ UNCHANGED <<dialVars, connVars, lisVars, gateVars, tdialVars, rankVars, pmVars>>
    \/ \E c \in PBCallers : SetProtocolsCheck(c) /\ UNCHANGED <<dialVars, connVars, lisVars, gateVars, tdialVars, rankVars, pmVars>>
    \/ \E c \in PBCallers : SetProtocolsStore(c) /\ UNCHANGED <<dialVars, connVars, lisVars, gateVars, tdialVars, rankVars, pmVars>>
    \/ \E c \in PBCallers : AddProtocols(c) /\ UNCHANGED <<dialVars, connVars, lisVars, gateVars, tdialVars, rankVars, pmVars>>
    \/ \E c \in PBCallers : RemoveProtocols(c) /\ UNCHANGED <<dialVars, connVars, lisVars, gateVars, tdialVars, rankVars, pmVars>>
    \/ \E c \in PBCallers : pbRemovePeer(c) /\ UNCHANGED <<dialVars, connVars, lisVars, gateVars, tdialVars, rankVars, pmVars>>

\* the step in which the call of c returns
pbReturns(c) == pbc[c].pc /= "idle" /\ pbc'[c].pc = "idle"

\* the call of c would leave more than maxProtos protocols for its peer
WouldExceed(c) ==
    \/ /\ pbc[c].op = "SetProtocols"
       /\ Cardinality(Elems(pbc[c].protos)) > maxProtos
    \/ /\ pbc[c].op = "AddProtocols"
       /\ Cardinality(GetProtocols(pbc[c].p) \cup Elems(pbc[c].protos)) > maxProtos

C32_Inv == \A p \in PBPeers : Cardinality(protocols[p].m) <= maxProtos

C32_Act ==
    \A c \in PBCallers : pbReturns(c) =>
        /\ WouldExceed(c) => pbc'[c].err = errTooManyProtocols
        /\ pbc'[c].err = errTooManyProtocols =>
              /\ pbc[c].op \in {"SetProtocols", "AddProtocols"}
              /\ \A p \in PBPeers : GetProtocols(p)' = GetProtocols(p)

\* C32: under any interleaving of SetProtocols, AddProtocols, RemoveProtocols
\* and RemovePeer calls, no peer ever has more than maxProtos protocols
\* stored; a SetProtocols or AddProtocols call that would exceed the maximum
\* returns errTooManyProtocols, and a call that returns it leaves the
\* protocols GetProtocols reports for every peer as they were.
C32_ProtocolLimit == []C32_Inv /\ [][C32_Act]_vars

\* C32 witness: a peer holds maxProtos protocols, a call on it has returned
\* errTooManyProtocols, and another caller is between the length test and
\* the store of SetProtocols on the same peer.
C32_Witness ==
    \E c, d \in PBCallers, p \in PBPeers :
        /\ Cardinality(protocols[p].m) = maxProtos
        /\ pbc[c].pc = "idle" /\ pbc[c].err = errTooManyProtocols
        /\ pbc[d].pc = "store" /\ pbc[d].p = p

(***************************************************************************)
(* PeerstoreManager (p2p/host/pstoremanager/pstoremanager.go)              *)
(*                                                                         *)
(* The background goroutine selects between the subscription of            *)
(* EvtPeerConnectednessChanged, its ticker and ctx.Done(). The network     *)
(* changes a peer's connectedness on its own goroutines and the event of   *)
(* a change waits in the subscription until the manager receives it.       *)
(***************************************************************************)
PMPeers == {"p1", "p2"}

\* changes of connectedness the network goes through
MaxNetChanges == 3
\* the last instant of the clock
MaxTime == 2
\* WithGracePeriod(gracePeriod), in clock instants
gracePeriod == 1

NotConnected == "NotConnected"
IsConnected(c) == c \in {"Connected", "Limited"}

\* no entry in the disconnected map
NoTime == -1

NoPM == [pc |-> "select", todo |-> {}, cur |-> "none", now |-> 0]

InitPM ==
    /\ net = [p \in PMPeers |-> NotConnected]
    /\ netChanges = 0
    /\ subOut = <<>>
    /\ clock = 0
    /\ pmCtxDone = FALSE
    /\ pmDisc = [p \in PMPeers |-> NoTime]
    /\ pm = NoPM
    /\ pstoreRemoved = [p \in PMPeers |-> 0]

\* the keys of the disconnected map
pmKeys == {p \in PMPeers : pmDisc[p] /= NoTime}

\* the network changes the connectedness of p and emits the event
connectednessChanged(p, c) ==
    /\ netChanges < MaxNetChanges
    /\ c /= net[p]
    /\ net' = [net EXCEPT ![p] = c]
    /\ netChanges' = netChanges + 1
    /\ subOut' = Append(subOut, [Peer |-> p, Connectedness |-> c])
    /\ UNCHANGED <<clock, pmCtxDone, pmDisc, pm, pstoreRemoved>>

\* time passes
clockAdvance ==
    /\ clock < MaxTime
    /\ clock' = clock + 1
    /\ UNCHANGED <<net, netChanges, subOut, pmCtxDone, pmDisc, pm, pstoreRemoved>>

\* case e, ok := <-sub.Out()
pmEvent ==
    /\ pm.pc = "select"
    /\ subOut /= <<>>
    /\ LET ev == Head(subOut)
           p == ev.Peer
       IN pmDisc' = IF IsConnected(ev.Connectedness) THEN [pmDisc EXCEPT ![p] = NoTime]
                    ELSE IF pmDisc[p] = NoTime THEN [pmDisc EXCEPT ![p] = clock]
                    ELSE pmDisc
    /\ subOut' = Tail(subOut)
    /\ UNCHANGED <<net, netChanges, clock, pmCtxDone, pm, pstoreRemoved>>

\* case <-ticker.C: now := time.Now(); for p, disconnectTime := range disconnected
pmTick ==
    /\ pm.pc = "select"
    /\ pm' = [pc |-> "tick", todo |-> pmKeys, cur |-> "none", now |-> clock]
    /\ UNCHANGED <<net, netChanges, subOut, clock, pmCtxDone, pmDisc, pstoreRemoved>>

\* disconnectTime.Add(m.gracePeriod).Before(now)
Expired(disconnectTime, now) == disconnectTime + gracePeriod < now

\* one iteration of the tick's loop up to the RemovePeer call: an expired
\* peer the network reports connected is only dropped from the map
pmTickPeer(p) ==
    /\ pm.pc = "tick"
    /\ p \in pm.todo
    /\ IF ~Expired(pmDisc[p], pm.now)
         THEN /\ pm' = [pm EXCEPT !.todo = @ \ {p}]
              /\ UNCHANGED pmDisc
         ELSE IF IsConnected(net[p])
         THEN /\ pm' = [pm EXCEPT !.todo = @ \ {p}]
              /\ pmDisc' = [pmDisc EXCEPT ![p] = NoTime]
         ELSE /\ pm' = [pm EXCEPT !.pc = "tickRemove", !.cur = p]
              /\ UNCHANGED pmDisc
    /\ UNCHANGED <<net, netChanges, subOut, clock, pmCtxDone, pstoreRemoved>>

\* m.pstore.RemovePeer(p)
RemovePeer(p) == [pstoreRemoved EXCEPT ![p] = @ + 1]

\* m.pstore.RemovePeer(p); delete(disconnected, p)
pmTickRemove ==
    /\ pm.pc = "tickRemove"
    /\ pstoreRemoved' = RemovePeer(pm.cur)
    /\ pmDisc' = [pmDisc EXCEPT ![pm.cur] = NoTime]
    /\ pm' = [pm EXCEPT !.pc = "tick", !.todo = @ \ {pm.cur}, !.cur = "none"]
    /\ UNCHANGED <<net, netChanges, subOut, clock, pmCtxDone>>

\* the range loop of the tick is over
pmTickEnd ==
    /\ pm.pc = "tick"
    /\ pm.todo = {}
    /\ pm' = NoPM
    /\ UNCHANGED <<net, netChanges, subOut, clock, pmCtxDone, pmDisc, pstoreRemoved>>

\* PeerstoreManager.Close: m.cancel()
pmClose ==
    /\ ~pmCtxDone
    /\ pmCtxDone' = TRUE
    /\ UNCHANGED <<net, netChanges, subOut, clock, pmDisc, pm, pstoreRemoved>>

\* case <-ctx.Done(): return, which runs the deferred functions
pmCtxDoneReturn ==
    /\ pm.pc = "select"
    /\ pmCtxDone
    /\ pm' = [pc |-> "deferred", todo |-> pmKeys, cur |-> "none", now |-> pm.now]
    /\ UNCHANGED <<net, netChanges, subOut, clock, pmCtxDone, pmDisc, pstoreRemoved>>

\* the deferred function: for p := range disconnected { m.pstore.RemovePeer(p) }
pmDeferredRemove(p) ==
    /\ pm.pc = "deferred"
    /\ p \in pm.todo
    /\ pstoreRemoved' = RemovePeer(p)
    /\ pm' = [pm EXCEPT !.todo = @ \ {p}]
    /\ UNCHANGED <<net, netChanges, subOut, clock, pmCtxDone, pmDisc>>

\* the goroutine ends: ticker.Stop(), sub.Close(), m.refCount.Done()
pmDone ==
    /\ pm.pc = "deferred"
    /\ pm.todo = {}
    /\ pm' = [pm EXCEPT !.pc = "done"]
    /\ UNCHANGED <<net, netChanges, subOut, clock, pmCtxDone, pmDisc, pstoreRemoved>>

NextPM ==
    \/ \E p \in PMPeers, c \in {NotConnected, "Connected", "Limited"} :
          connectednessChanged(p, c) /\ UNCHANGED <<dialVars, connVars, lisVars, gateVars, tdialVars, rankVars, pbVars>>
    \/ clockAdvance /\ UNCHANGED <<dialVars, connVars, lisVars, gateVars, tdialVars, rankVars, pbVars>>
    \/ pmEvent /\ UNCHANGED <<dialVars, connVars, lisVars, gateVars, tdialVars, rankVars, pbVars>>
    \/ pmTick /\ UNCHANGED <<dialVars, connVars, lisVars, gateVars, tdialVars, rankVars, pbVars>>
    \/ \E p \in PMPeers : pmTickPeer(p) /\ UNCHANGED <<dialVars, connVars, lisVars, gateVars, tdialVars, rankVars, pbVars>>
    \/ pmTickRemove /\ UNCHANGED <<dialVars, connVars, lisVars, gateVars, tdialVars, rankVars, pbVars>>
    \/ pmTickEnd /\ UNCHANGED <<dialVars, connVars, lisVars, gateVars, tdialVars, rankVars, pbVars>>
    \/ pmClose /\ UNCHANGED <<dialVars, connVars, lisVars, gateVars, tdialVars, rankVars, pbVars>>
    \/ pmCtxDoneReturn /\ UNCHANGED <<dialVars, connVars, lisVars, gateVars, tdialVars, rankVars, pbVars>>
    \/ \E p \in PMPeers : pmDeferredRemove(p) /\ UNCHANGED <<dialVars, connVars, lisVars, gateVars, tdialVars, rankVars, pbVars>>
    \/ pmDone /\ UNCHANGED <<dialVars, connVars, lisVars, gateVars, tdialVars, rankVars, pbVars>>

\* the step is a RemovePeer call for p
RemovePeerCalled(p) == pstoreRemoved'[p] > pstoreRemoved[p]

\* C38, on the shutdown path: the deferred cleanup never calls RemovePeer
\* for a peer whose connectedness is Connected or Limited at that moment.
C38_ShutdownRemovesOnlyDisconnected ==
    [][\A p \in PMPeers :
          (pm.pc = "deferred" /\ RemovePeerCalled(p)) => ~IsConnected(net[p])]_vars

Init ==
    /\ InitDial /\ InitConn /\ InitListener /\ InitGater /\ InitTDial /\ InitRank
    /\ InitProto /\ InitPM

SpecDial == Init /\ [][NextDial]_vars

SpecDialLive == Init /\ [][NextDial]_vars /\ DialFairness
SpecConn == Init /\ [][NextConn]_vars

SpecConnLive == Init /\ [][NextConn]_vars /\ ConnFairness
SpecListener == Init /\ [][NextListener]_vars

SpecListenerLive == Init /\ [][NextListener]_vars /\ ListenerFairness
SpecGater == Init /\ [][NextGater]_vars

SpecTDial == Init /\ [][NextTDial]_vars

SpecRank == Init /\ [][NextRank]_vars

SpecProto == Init /\ [][NextProto]_vars

SpecPM == Init /\ [][NextPM]_vars

====
